---- MODULE Spec2Model ----
(***************************************************************************)
(* State-machine model of the Evercity carbon-assets pallet (a fork of the *)
(* FRAME assets pallet): asset registry, asset accounts, approvals,        *)
(* metadata, burn certificates, the custodian cell and the id nonce,       *)
(* together with the parts of the native-currency ledger and of the        *)
(* account reference counters that the pallet touches.                     *)
(*                                                                         *)
(* The accounts registry of the evercity-accounts pallet (roles as bit     *)
(* masks, the master fuse) is modelled beside it, with behaviours of its   *)
(* own.                                                                    *)
(*                                                                         *)
(* Option<T> values are sets: None is {} and Some(x) is {x}.               *)
(* Byte strings are sequences of small naturals.                           *)
(***************************************************************************)
EXTENDS Integers, FiniteSets, Sequences, TLC

(* ----------------------------- bounds ---------------------------------- *)

\* Largest value of the Balance type (u64 in the mock, scaled down).
MaxBalance == 3

\* Number of successful commands explored from genesis.
MaxCommands == 2

(* ------------------------ runtime configuration ------------------------ *)

AssetDeposit == 1
AssetAccountDeposit == 10
MetadataDepositBase == 1
MetadataDepositPerByte == 1
ApprovalDeposit == 1
StringLimit == 50
MaxConsumers == 2
ExistentialDeposit == 1
InitialNonce == 100

(* ----------------------------- universe -------------------------------- *)

Accounts == {1, 2, 3}

\* The privileged (ForceOrigin) origin; every other origin is a signed account.
Root == 0

Ids == {1, 2}

Balances == 0 .. MaxBalance

\* Native free balance of each account at genesis: 1 is rich, 2 can pay for
\* an account deposit or for an asset class but not for both, 3 does not
\* exist on the native ledger.
Endowment == [a \in Accounts |-> IF a = 1 THEN 100 ELSE IF a = 2 THEN 12 ELSE 0]

Name == <<1, 2>>

Symbol == <<3>>

Url == <<4>>

TooLong == [i \in 1 .. (StringLimit + 1) |-> 0]

NoneOf == {}

Some(x) == {x}

Get(o) == CHOOSE x \in o : TRUE

\* Value({B : x \in {E}}) is B with x bound to the result of E: the Rust
\* `let x = E; B`, E being run exactly once.
Value(S) == CHOOSE v \in S : TRUE

Min(a, b) == IF a < b THEN a ELSE b

\* Balance arithmetic of the fixed-width type.
saturating_add(a, b) == IF a + b > MaxBalance THEN MaxBalance ELSE a + b

saturating_sub(a, b) == IF a < b THEN 0 ELSE a - b

(* ------------------------------ state ---------------------------------- *)

VARIABLES
    Custodian,        \* Option<AccountId>
    LastNonce,        \* u64
    Asset,            \* id -> Option<AssetDetails>
    Account,          \* id -> who -> Option<AssetAccount>
    Approvals,        \* id -> owner -> delegate -> Option<Approval>
    Metadata,         \* id -> Option<AssetMetadata>
    BurnCertificate,  \* who -> id -> Option<Balance>
    free,             \* native ledger: free balance
    reserved,         \* native ledger: reserved balance
    consumers,        \* account system: consumer references
    sufficients,      \* account system: sufficient references
    commands,         \* number of successful commands so far
    Fuse,             \* evercity-accounts: bool, set once a master has been set
    AccountRegistry   \* evercity-accounts: who -> Option<AccountStruct>

vars == <<Custodian, LastNonce, Asset, Account, Approvals, Metadata,
          BurnCertificate, free, reserved, consumers, sufficients, commands,
          Fuse, AccountRegistry>>

\* The storage as one value; events and hooks are those of the running command.
Storage ==
    [Custodian |-> Custodian, LastNonce |-> LastNonce, Asset |-> Asset,
     Account |-> Account, Approvals |-> Approvals, Metadata |-> Metadata,
     BurnCertificate |-> BurnCertificate, free |-> free, reserved |-> reserved,
     consumers |-> consumers, sufficients |-> sufficients,
     events |-> <<>>, died |-> <<>>]

Ok(s) == [st |-> s, res |-> "Ok"]

Err(s, e) == [st |-> s, res |-> e]

Event(name, id, a, b, n) == [name |-> name, asset_id |-> id, a |-> a, b |-> b, amount |-> n]

deposit_event(s, e) == [s EXCEPT !.events = Append(@, e)]

(* ------------------------ native currency ledger ----------------------- *)

reserve(s, who, value) ==
    IF s.free[who] < value
    THEN Err(s, "InsufficientBalance")
    ELSE Ok([s EXCEPT !.free[who] = @ - value, !.reserved[who] = @ + value])

unreserve(s, who, value) ==
    LET actual == Min(s.reserved[who], value)
    IN  [s EXCEPT !.free[who] = @ + actual, !.reserved[who] = @ - actual]

\* repatriate_reserved(slashed, beneficiary, value, Reserved)
repatriate_reserved(s, slashed, beneficiary, value) ==
    IF value = 0 \/ slashed = beneficiary THEN Ok(s)
    ELSE IF s.free[beneficiary] + s.reserved[beneficiary] = 0
    THEN Err(s, "DeadAccount")
    ELSE LET actual == Min(s.reserved[slashed], value)
         IN  Ok([s EXCEPT !.reserved[slashed] = @ - actual,
                          !.reserved[beneficiary] = @ + actual])

(* ---------------------- account reference counters --------------------- *)

\* The native ledger is the only provider of references in the runtime.
providers(s, who) == IF s.free[who] + s.reserved[who] >= ExistentialDeposit THEN 1 ELSE 0

can_inc_consumer(s, who) == providers(s, who) > 0 /\ s.consumers[who] < MaxConsumers

inc_consumer(s, who) ==
    IF can_inc_consumer(s, who)
    THEN Ok([s EXCEPT !.consumers[who] = @ + 1])
    ELSE Err(s, "NoProvider")

dec_consumer(s, who) == [s EXCEPT !.consumers[who] = IF @ > 0 THEN @ - 1 ELSE 0]

inc_sufficients(s, who) == [s EXCEPT !.sufficients[who] = @ + 1]

dec_sufficients(s, who) == [s EXCEPT !.sufficients[who] = IF @ > 0 THEN @ - 1 ELSE 0]

(* --------------------------- stored records ---------------------------- *)

AssetDetails(owner, issuer, admin, freezer, deposit, min_balance, is_sufficient) ==
    [owner |-> owner, issuer |-> issuer, admin |-> admin, freezer |-> freezer,
     supply |-> 0, deposit |-> deposit, min_balance |-> min_balance,
     is_sufficient |-> is_sufficient, accounts |-> 0, sufficients |-> 0,
     approvals |-> 0, is_frozen |-> FALSE]

\* reason is "Consumer", "Sufficient" or "DepositHeld"; deposit is the amount
\* held by a DepositHeld reason and 0 otherwise.
AssetAccount(balance, reason, deposit) ==
    [balance |-> balance, is_frozen |-> FALSE, reason |-> reason, deposit |-> deposit]

AssetMetadata(deposit, name, symbol, url, data_ipfs, decimals, is_frozen) ==
    [deposit |-> deposit, name |-> name, symbol |-> symbol, url |-> url,
     data_ipfs |-> data_ipfs, decimals |-> decimals, is_frozen |-> is_frozen]

Approval(amount, deposit) == [amount |-> amount, deposit |-> deposit]

\* The balance of an asset account, 0 when there is none.
balance(s, id, who) ==
    IF s.Account[id][who] = {} THEN 0 ELSE Get(s.Account[id][who]).balance

\* Freezer::died hook, called when an asset account is removed: records the
\* call together with the balance the hook reads for the dying account.
died(s, id, who) == [s EXCEPT !.died = Append(@, <<id, who, balance(s, id, who)>>)]

(* ------------------- account creation and removal ---------------------- *)

\* Reason of a new account plus the reference it takes; d is the in-memory
\* copy of the asset details that the caller stores afterwards.
new_account(s, who, d, maybe_deposit) ==
    IF maybe_deposit # {}
    THEN [st |-> s, d |-> [d EXCEPT !.accounts = @ + 1],
          reason |-> "DepositHeld", deposit |-> Get(maybe_deposit), res |-> "Ok"]
    ELSE IF d.is_sufficient
    THEN [st |-> inc_sufficients(s, who),
          d |-> [d EXCEPT !.sufficients = @ + 1, !.accounts = @ + 1],
          reason |-> "Sufficient", deposit |-> 0, res |-> "Ok"]
    ELSE LET r == inc_consumer(s, who)
         IN  [st |-> r.st, d |-> [d EXCEPT !.accounts = @ + 1],
              reason |-> "Consumer", deposit |-> 0, res |-> r.res]

\* Faulty variant of dead_account: the consumer reference of a removed
\* account is kept.
dead_account_keeps_consumer(s, who, d, reason, force) ==
    IF reason = "DepositHeld" /\ ~force
    THEN [st |-> s, d |-> d, remove |-> FALSE]
    ELSE LET s1 == IF reason = "Sufficient" THEN dec_sufficients(s, who) ELSE s
             d1 == IF reason = "Sufficient"
                   THEN [d EXCEPT !.sufficients = saturating_sub(@, 1)]
                   ELSE d
         IN  [st |-> s1, d |-> [d1 EXCEPT !.accounts = saturating_sub(@, 1)],
              remove |-> TRUE]

\* Faulty variant of dead_account: an account with reason DepositHeld is
\* removed like any other.
dead_account_removes_deposit_held(s, who, d, reason, force) ==
    LET s1 == IF reason = "Consumer" THEN dec_consumer(s, who)
              ELSE IF reason = "Sufficient" THEN dec_sufficients(s, who)
              ELSE s
        d1 == IF reason = "Sufficient"
              THEN [d EXCEPT !.sufficients = saturating_sub(@, 1)]
              ELSE d
    IN  [st |-> s1, d |-> [d1 EXCEPT !.accounts = saturating_sub(@, 1)], remove |-> TRUE]

\* Releases what the account's reason holds; remove = FALSE is DeadConsequence::Keep
\* (a DepositHeld account stays until refund, unless forced by destroy).
dead_account(s, who, d, reason, force) ==
    IF reason = "DepositHeld" /\ ~force
    THEN [st |-> s, d |-> d, remove |-> FALSE]
    ELSE LET s1 == IF reason = "Consumer" THEN dec_consumer(s, who)
                   ELSE IF reason = "Sufficient" THEN dec_sufficients(s, who)
                   ELSE s
             d1 == IF reason = "Sufficient"
                   THEN [d EXCEPT !.sufficients = saturating_sub(@, 1)]
                   ELSE d
         IN  [st |-> s1, d |-> [d1 EXCEPT !.accounts = saturating_sub(@, 1)],
              remove |-> TRUE]

(* ------------------------- credit and debit ---------------------------- *)

\* Faulty variant of can_increase: a new account may start one unit below
\* min_balance.
can_increase_lenient_minimum(s, id, who, amount, increase_supply) ==
    IF s.Asset[id] = {} THEN "UnknownAsset"
    ELSE LET d == Get(s.Asset[id])
         IN  IF increase_supply /\ d.supply + amount > MaxBalance THEN "Overflow"
             ELSE IF s.Account[id][who] # {}
             THEN IF Get(s.Account[id][who]).balance + amount > MaxBalance
                  THEN "Overflow" ELSE "Success"
             ELSE IF d.is_frozen THEN "Blocked"
             ELSE IF amount + 1 < d.min_balance THEN "BelowMinimum"
             ELSE IF ~d.is_sufficient /\ ~can_inc_consumer(s, who) THEN "CannotCreate"
             ELSE "Success"

\* Faulty variant of can_increase: a new account may start below min_balance.
can_increase_no_minimum(s, id, who, amount, increase_supply) ==
    IF s.Asset[id] = {} THEN "UnknownAsset"
    ELSE LET d == Get(s.Asset[id])
         IN  IF increase_supply /\ d.supply + amount > MaxBalance THEN "Overflow"
             ELSE IF s.Account[id][who] # {}
             THEN IF Get(s.Account[id][who]).balance + amount > MaxBalance
                  THEN "Overflow" ELSE "Success"
             ELSE IF d.is_frozen THEN "Blocked"
             ELSE IF ~d.is_sufficient /\ ~can_inc_consumer(s, who) THEN "CannotCreate"
             ELSE "Success"

can_increase(s, id, who, amount, increase_supply) ==
    IF s.Asset[id] = {} THEN "UnknownAsset"
    ELSE LET d == Get(s.Asset[id])
         IN  IF increase_supply /\ d.supply + amount > MaxBalance THEN "Overflow"
             ELSE IF s.Account[id][who] # {}
             THEN IF Get(s.Account[id][who]).balance + amount > MaxBalance
                  THEN "Overflow" ELSE "Success"
             ELSE IF d.is_frozen THEN "Blocked"
             ELSE IF amount < d.min_balance THEN "BelowMinimum"
             ELSE IF ~d.is_sufficient /\ ~can_inc_consumer(s, who) THEN "CannotCreate"
             ELSE "Success"

\* DebitFlags
DebitFlags(keep_alive, best_effort) == [keep_alive |-> keep_alive, best_effort |-> best_effort]

\* TransferFlags
TransferFlags(keep_alive, best_effort, burn_dust) ==
    [keep_alive |-> keep_alive, best_effort |-> best_effort, burn_dust |-> burn_dust]

\* The amount a debit of `amount` removes from target's account: the whole
\* balance when what would remain is below min_balance.
prep_debit(s, id, target, amount, f) ==
    IF s.Asset[id] = {} THEN [res |-> "Unknown", actual |-> 0]
    ELSE IF Get(s.Asset[id]).is_frozen THEN [res |-> "Frozen", actual |-> 0]
    ELSE IF s.Account[id][target] = {} THEN [res |-> "NoAccount", actual |-> 0]
    ELSE IF Get(s.Account[id][target]).is_frozen THEN [res |-> "Frozen", actual |-> 0]
    ELSE LET d == Get(s.Asset[id])
             a == Get(s.Account[id][target])
             reducible == Min(IF f.keep_alive
                              THEN saturating_sub(a.balance, d.min_balance)
                              ELSE a.balance, d.supply)
             actual == Min(reducible, amount)
             rest == a.balance - actual
         IN  IF ~f.best_effort /\ actual < amount THEN [res |-> "BalanceLow", actual |-> 0]
             ELSE IF rest < d.min_balance
             THEN IF f.keep_alive THEN [res |-> "BalanceLow", actual |-> 0]
                  ELSE [res |-> "Ok", actual |-> a.balance]
             ELSE [res |-> "Ok", actual |-> actual]

\* Credits beneficiary with a newly issued amount; issuer check first when asked.
do_mint(s, id, beneficiary, amount, maybe_check_issuer) ==
    IF s.Asset[id] = {} THEN Err(s, "Unknown")
    ELSE LET d == Get(s.Asset[id])
             c == can_increase(s, id, beneficiary, amount, TRUE)
         IN  IF maybe_check_issuer # {} /\ Get(maybe_check_issuer) # d.issuer
             THEN Err(s, "NoPermission")
             ELSE IF c # "Success" THEN Err(s, c)
             ELSE LET d1 == [d EXCEPT !.supply = saturating_add(@, amount)]
                      n == new_account(s, beneficiary, d1, NoneOf)
                      ev == Event("Issued", id, beneficiary, beneficiary, amount)
                  IN  IF s.Account[id][beneficiary] # {}
                      THEN Ok(deposit_event(
                             [s EXCEPT !.Asset[id] = {d1},
                                       !.Account[id][beneficiary] =
                                          {[Get(@) EXCEPT !.balance = saturating_add(@, amount)]}],
                             ev))
                      ELSE IF n.res # "Ok" THEN Err(s, n.res)
                      ELSE Ok(deposit_event(
                             [n.st EXCEPT !.Asset[id] = {n.d},
                                          !.Account[id][beneficiary] =
                                             {AssetAccount(amount, n.reason, n.deposit)}],
                             ev))

\* Faulty variant of self_burn_check: the supply is left as it was.
self_burn_check_keeps_supply(actual, details) == [res |-> "Ok", d |-> details]

\* The closure self_burn hands to decrease_balance: it takes the amount
\* actually debited off the supply.
self_burn_check(actual, details) ==
    [res |-> "Ok", d |-> [details EXCEPT !.supply = saturating_sub(@, actual)]]

\* The closure do_burn hands to decrease_balance: the caller, when given, must
\* be the asset's admin.
do_burn_check(maybe_check_admin, actual, details) ==
    IF maybe_check_admin # {} /\ Get(maybe_check_admin) # details.admin
    THEN [res |-> "NoPermission", d |-> details]
    ELSE [res |-> "Ok", d |-> [details EXCEPT !.supply = saturating_sub(@, actual)]]

\* A closure is passed as a record naming it, with what it captures.
call_check(check, actual, details) ==
    IF check.fn = "self_burn" THEN self_burn_check(actual, details)
    ELSE do_burn_check(check.maybe_check_admin, actual, details)

\* Debits target: prepares the debit, runs the caller's closure on the asset
\* details, then writes the account (or reaps it). Returns the storage, the
\* result and the amount actually debited.
decrease_balance(s, id, target, amount, f, check) ==
    Value({
        IF p.res # "Ok" THEN [st |-> s, res |-> p.res, actual |-> 0]
        ELSE Value({
            IF c.res # "Ok" THEN [st |-> s, res |-> c.res, actual |-> 0]
            ELSE Value({
                 IF a.balance < c.d.min_balance /\ dead.remove
                 THEN [st |-> died([dead.st EXCEPT !.Asset[id] = {dead.d},
                                                   !.Account[id][target] = {}],
                                   id, target),
                       res |-> "Ok", actual |-> p.actual]
                 ELSE [st |-> [s EXCEPT !.Asset[id] = {c.d}, !.Account[id][target] = {a}],
                       res |-> "Ok", actual |-> p.actual]
               : dead \in {dead_account(s, target, c.d, a.reason, FALSE)} })
          : c \in {call_check(check, p.actual, Get(s.Asset[id]))},
            a \in {[Get(s.Account[id][target]) EXCEPT
                       !.balance = saturating_sub(@, p.actual)]} })
      : p \in {prep_debit(s, id, target, amount, f)} })

do_burn(s, id, target, amount, maybe_check_admin, f) ==
    Value({
        IF r.res # "Ok" THEN r
        ELSE [r EXCEPT !.st = deposit_event(@, Event("Burned", id, target, target, r.actual))]
      : r \in {decrease_balance(s, id, target, amount, f,
                                [fn |-> "do_burn", maybe_check_admin |-> maybe_check_admin])} })

(* ------------------------------ transfer ------------------------------- *)

transfer_failed(s, e) == [st |-> s, res |-> e, credit |-> 0, source_died |-> FALSE]

\* The credit of dest and the debit of source, once the prepared amounts, the
\* asset details `d0` and dest's new account `n` (unused when dest has an
\* account) are at hand.
transfer_credited(s, id, source, dest, debit, credit, d0, n) ==
    Value({
        Value({
            IF src.balance < d1.min_balance /\ dead.remove
            THEN [st |-> [dead.st EXCEPT !.Asset[id] = {dead.d}, !.Account[id][source] = {}],
                  res |-> "Ok", credit |-> credit, source_died |-> TRUE]
            ELSE [st |-> [s1 EXCEPT !.Asset[id] = {d1}, !.Account[id][source] = {src}],
                  res |-> "Ok", credit |-> credit, source_died |-> FALSE]
          : dead \in {dead_account(s1, source, d1, src.reason, FALSE)} })
      : src \in {[Get(s.Account[id][source]) EXCEPT !.balance = saturating_sub(@, debit)]},
        s1 \in {IF s.Account[id][dest] # {}
                THEN [s EXCEPT !.Account[id][dest] =
                                  {[Get(@) EXCEPT !.balance = saturating_add(@, credit)]}]
                ELSE [n.st EXCEPT !.Account[id][dest] =
                                  {AssetAccount(credit, n.reason, n.deposit)}]},
        d1 \in {IF s.Account[id][dest] # {} THEN d0 ELSE n.d} })

\* The part of a transfer that follows a successful prep_debit of `debit`:
\* with burn_dust the commanded amount is credited and the rest is burned.
transfer_prepared(s, id, source, dest, amount, maybe_need_admin, f, debit) ==
    Value({ Value({
        IF c # "Success" THEN transfer_failed(s, c)
        ELSE IF maybe_need_admin # {} /\ Get(maybe_need_admin) # Get(s.Asset[id]).admin
        THEN transfer_failed(s, "NoPermission")
        ELSE IF source = dest
        THEN [st |-> s, res |-> "Ok", credit |-> credit, source_died |-> FALSE]
        ELSE Value({
                IF s.Account[id][dest] = {} /\ n.res # "Ok" THEN transfer_failed(s, n.res)
                ELSE transfer_credited(s, id, source, dest, debit, credit, d0, n)
              : n \in {new_account(s, dest, d0, NoneOf)} })
      : c \in {can_increase(s, id, dest, credit, FALSE)},
        d0 \in {[Get(s.Asset[id]) EXCEPT !.supply = saturating_sub(@, debit - credit)]} })
      : credit \in {IF f.burn_dust /\ debit >= amount THEN amount ELSE debit} })

\* Faulty variant of transfer_and_die: amount 0 takes the same path as any
\* other amount.
transfer_and_die_without_exit(s, id, source, dest, amount, maybe_need_admin, f) ==
    Value({
        IF p.res # "Ok" THEN transfer_failed(s, p.res)
        ELSE transfer_prepared(s, id, source, dest, amount, maybe_need_admin, f, p.actual)
      : p \in {prep_debit(s, id, source, amount, DebitFlags(f.keep_alive, f.best_effort))} })

\* Moves amount from source to dest. Returns the storage, the result, the
\* amount credited and whether the source account was removed.
transfer_and_die(s, id, source, dest, amount, maybe_need_admin, f) ==
    IF amount = 0 THEN [st |-> s, res |-> "Ok", credit |-> 0, source_died |-> FALSE]
    ELSE Value({
        IF p.res # "Ok" THEN transfer_failed(s, p.res)
        ELSE transfer_prepared(s, id, source, dest, amount, maybe_need_admin, f, p.actual)
      : p \in {prep_debit(s, id, source, amount, DebitFlags(f.keep_alive, f.best_effort))} })

\* Faulty variant of do_transfer: the hook is not called for a reaped source.
do_transfer_without_hook(s, id, source, dest, amount, maybe_need_admin, f) ==
    Value({
        IF r.res # "Ok" THEN Err(s, r.res)
        ELSE Ok(IF amount = 0 THEN r.st
                ELSE deposit_event(r.st, Event("Transferred", id, source, dest, r.credit)))
      : r \in {transfer_and_die(s, id, source, dest, amount, maybe_need_admin, f)} })

do_transfer(s, id, source, dest, amount, maybe_need_admin, f) ==
    Value({
        IF r.res # "Ok" THEN Err(s, r.res)
        ELSE Value({ Ok(IF r.source_died THEN died(s1, id, source) ELSE s1)
                   : s1 \in {IF amount = 0 THEN r.st
                             ELSE deposit_event(r.st, Event("Transferred", id, source,
                                                            dest, r.credit))} })
      : r \in {transfer_and_die(s, id, source, dest, amount, maybe_need_admin, f)} })

(* ------------------------------ approvals ------------------------------ *)

do_approve_transfer(s, id, owner, delegate, amount) ==
    IF s.Asset[id] = {} THEN Err(s, "Unknown")
    ELSE IF Get(s.Asset[id]).is_frozen THEN Err(s, "Frozen")
    ELSE LET d == Get(s.Asset[id])
             old == s.Approvals[id][owner][delegate]
             d1 == IF old = {} THEN [d EXCEPT !.approvals = @ + 1] ELSE d
             approved == IF old = {} THEN Approval(0, 0) ELSE Get(old)
             r == IF approved.deposit < ApprovalDeposit
                  THEN reserve(s, owner, ApprovalDeposit - approved.deposit)
                  ELSE Ok(s)
             a1 == Approval(saturating_add(approved.amount, amount),
                            IF approved.deposit < ApprovalDeposit
                            THEN ApprovalDeposit ELSE approved.deposit)
         IN  IF r.res # "Ok" THEN Err(s, r.res)
             ELSE Ok(deposit_event(
                        [r.st EXCEPT !.Approvals[id][owner][delegate] = {a1},
                                     !.Asset[id] = {d1}],
                        Event("ApprovedTransfer", id, owner, delegate, amount)))

\* Faulty variant of do_transfer_approved: a drained approval stays stored,
\* with amount 0 and its deposit.
do_transfer_approved_keeps_drained(s, id, owner, delegate, destination, amount) ==
    IF s.Approvals[id][owner][delegate] = {} THEN Err(s, "Unapproved")
    ELSE IF Get(s.Approvals[id][owner][delegate]).amount < amount THEN Err(s, "Unapproved")
    ELSE Value({
        IF t.res # "Ok" THEN Err(s, t.res)
        ELSE Value({
            Ok(deposit_event(
                 IF t.source_died
                 THEN died([t1 EXCEPT !.Approvals[id][owner][delegate] =
                              {[approved EXCEPT !.amount = approved.amount - amount]}],
                           id, owner)
                 ELSE [t1 EXCEPT !.Approvals[id][owner][delegate] =
                              {[approved EXCEPT !.amount = approved.amount - amount]}],
                 Event("TransferredApproved", id, owner, delegate, amount)))
          : approved \in s.Approvals[id][owner][delegate],
            t1 \in {IF amount = 0 THEN t.st
                    ELSE deposit_event(t.st, Event("Transferred", id, owner,
                                                   destination, t.credit))} })
      : t \in {transfer_and_die(s, id, owner, destination, amount, NoneOf,
                                TransferFlags(FALSE, FALSE, FALSE))} })

do_transfer_approved(s, id, owner, delegate, destination, amount) ==
    IF s.Approvals[id][owner][delegate] = {} THEN Err(s, "Unapproved")
    ELSE IF Get(s.Approvals[id][owner][delegate]).amount < amount THEN Err(s, "Unapproved")
    ELSE Value({
        IF t.res # "Ok" THEN Err(s, t.res)
        ELSE Value({
            Value({
                Ok(deposit_event(IF t.source_died THEN died(s2, id, owner) ELSE s2,
                                 Event("TransferredApproved", id, owner, delegate, amount)))
              : s2 \in {IF approved.amount - amount = 0
                        THEN [unreserve(t1, owner, approved.deposit) EXCEPT
                                 !.Approvals[id][owner][delegate] = {},
                                 !.Asset[id] = IF @ = {} THEN @
                                               ELSE {[Get(@) EXCEPT !.approvals =
                                                         saturating_sub(@, 1)]}]
                        ELSE [t1 EXCEPT !.Approvals[id][owner][delegate] =
                                 {[approved EXCEPT !.amount = approved.amount - amount]}]} })
          : approved \in s.Approvals[id][owner][delegate],
            t1 \in {IF amount = 0 THEN t.st
                    ELSE deposit_event(t.st, Event("Transferred", id, owner,
                                                   destination, t.credit))} })
      : t \in {transfer_and_die(s, id, owner, destination, amount, NoneOf,
                                TransferFlags(FALSE, FALSE, FALSE))} })

(* --------------------------- touch and refund -------------------------- *)

do_touch(s, id, who) ==
    IF s.Account[id][who] # {} THEN Err(s, "AlreadyExists")
    ELSE IF s.Asset[id] = {} THEN Err(s, "Unknown")
    ELSE LET n == new_account(s, who, Get(s.Asset[id]), Some(AssetAccountDeposit))
             r == reserve(n.st, who, AssetAccountDeposit)
         IN  IF n.res # "Ok" THEN Err(s, n.res)
             ELSE IF r.res # "Ok" THEN Err(s, r.res)
             ELSE Ok([r.st EXCEPT !.Asset[id] = {n.d},
                                  !.Account[id][who] =
                                     {AssetAccount(0, n.reason, n.deposit)}])

\* Faulty variant of do_refund: the account is removed and its deposit stays
\* reserved.
do_refund_keeps_deposit(s, id, who, allow_burn) ==
    IF s.Account[id][who] = {} THEN Err(s, "NoDeposit")
    ELSE IF Get(s.Account[id][who]).reason # "DepositHeld" THEN Err(s, "NoDeposit")
    ELSE IF s.Asset[id] = {} THEN Err(s, "Unknown")
    ELSE LET a == Get(s.Account[id][who])
             d == [Get(s.Asset[id]) EXCEPT !.supply = saturating_sub(@, a.balance)]
             dead == dead_account(s, who, d, "DepositRefunded", FALSE)
         IN  IF a.balance # 0 /\ ~allow_burn THEN Err(s, "WouldBurn")
             ELSE Ok(died([dead.st EXCEPT !.Asset[id] = {dead.d},
                                          !.Account[id][who] = {}],
                          id, who))

do_refund(s, id, who, allow_burn) ==
    IF s.Account[id][who] = {} THEN Err(s, "NoDeposit")
    ELSE IF Get(s.Account[id][who]).reason # "DepositHeld" THEN Err(s, "NoDeposit")
    ELSE IF s.Asset[id] = {} THEN Err(s, "Unknown")
    ELSE LET a == Get(s.Account[id][who])
             d == [Get(s.Asset[id]) EXCEPT !.supply = saturating_sub(@, a.balance)]
             u == unreserve(s, who, a.deposit)
             dead == dead_account(u, who, d, "DepositRefunded", FALSE)
         IN  IF a.balance # 0 /\ ~allow_burn THEN Err(s, "WouldBurn")
             ELSE Ok(died([dead.st EXCEPT !.Asset[id] = {dead.d},
                                          !.Account[id][who] = {}],
                          id, who))

(* ------------------------ registry and metadata ------------------------ *)

\* `id` is the 24-byte hash of (nonce, randomness, caller): any identifier.
get_new_asset_id(s, owner, id) ==
    LET s1 == [s EXCEPT !.LastNonce = @ + 1]
    IN  IF s1.Asset[id] # {} THEN Err(s1, "ErrorCreatingAssetId") ELSE Ok(s1)

do_force_create(s, id, owner, is_sufficient, min_balance) ==
    IF s.Asset[id] # {} THEN Err(s, "InUse")
    ELSE IF min_balance = 0 THEN Err(s, "MinBalanceZero")
    ELSE Ok(deposit_event(
              [s EXCEPT !.Asset[id] =
                  {AssetDetails(owner, owner, owner, owner, 0, min_balance, is_sufficient)}],
              Event("ForceCreated", id, owner, owner, 0)))

do_set_metadata(s, id, from, name, symbol, decimals) ==
    IF Len(name) > StringLimit \/ Len(symbol) > StringLimit THEN Err(s, "BadMetadata")
    ELSE IF s.Asset[id] = {} THEN Err(s, "Unknown")
    ELSE IF from # Get(s.Asset[id]).owner THEN Err(s, "NoPermission")
    ELSE IF s.Metadata[id] # {} /\ Get(s.Metadata[id]).is_frozen THEN Err(s, "NoPermission")
    ELSE LET old_deposit == IF s.Metadata[id] = {} THEN 0 ELSE Get(s.Metadata[id]).deposit
             new_deposit == MetadataDepositPerByte * (Len(name) + Len(symbol))
                              + MetadataDepositBase
             r == IF new_deposit > old_deposit
                  THEN reserve(s, from, new_deposit - old_deposit)
                  ELSE Ok(unreserve(s, from, old_deposit - new_deposit))
         IN  IF r.res # "Ok" THEN Err(s, r.res)
             ELSE Ok(deposit_event(
                       [r.st EXCEPT !.Metadata[id] =
                           {AssetMetadata(new_deposit, name, symbol, <<>>, <<>>, decimals, FALSE)}],
                       Event("MetadataSet", id, from, from, decimals)))

update_metadata(s, id, from, url, data_ipfs) ==
    IF s.Asset[id] = {} THEN Err(s, "Unknown")
    ELSE IF from # Get(s.Asset[id]).owner /\ s.Custodian # {from} THEN Err(s, "NoPermission")
    ELSE IF Get(s.Asset[id]).supply > 0 THEN Err(s, "CannotChangeAfterMint")
    ELSE IF Len(url) > StringLimit \/ Len(data_ipfs) > StringLimit THEN Err(s, "BadMetadata")
    ELSE IF s.Metadata[id] = {} THEN Err(s, "NoMetadata")
    ELSE Ok(deposit_event(
              [s EXCEPT !.Metadata[id] = {[Get(@) EXCEPT !.url = url, !.data_ipfs = data_ipfs]}],
              Event("MetadataUpdated", id, from, from, 0)))

\* Faulty variant of drain_accounts: only the first account is removed.
drain_accounts_first_only(s, id, d, whos) ==
    IF whos = {} THEN [st |-> s, d |-> d]
    ELSE LET who == CHOOSE w \in whos : \A v \in whos : w <= v
             dead == dead_account(s, who, d, Get(s.Account[id][who]).reason, TRUE)
         IN  [st |-> died([dead.st EXCEPT !.Account[id][who] = {}], id, who), d |-> dead.d]

\* Removes every account of the class, forcing DepositHeld ones too.
RECURSIVE drain_accounts(_, _, _, _)
drain_accounts(s, id, d, whos) ==
    IF whos = {} THEN [st |-> s, d |-> d]
    ELSE LET who == CHOOSE w \in whos : \A v \in whos : w <= v
             dead == dead_account(s, who, d, Get(s.Account[id][who]).reason, TRUE)
         IN  drain_accounts(died([dead.st EXCEPT !.Account[id][who] = {}], id, who),
                            id, dead.d, whos \ {who})

\* Returns the deposit of every approval of the class to its owner.
RECURSIVE drain_approvals(_, _, _)
drain_approvals(s, id, pairs) ==
    IF pairs = {} THEN s
    ELSE LET p == CHOOSE q \in pairs : TRUE
             u == unreserve(s, p[1], Get(s.Approvals[id][p[1]][p[2]]).deposit)
         IN  drain_approvals([u EXCEPT !.Approvals[id][p[1]][p[2]] = {}], id, pairs \ {p})

DestroyWitness(accounts, sufs, approvals) ==
    [accounts |-> accounts, sufficients |-> sufs, approvals |-> approvals]

\* Faulty variant of do_destroy: only the witness's account count is compared.
do_destroy_checks_accounts_only(s, id, witness, maybe_check_owner) ==
    IF s.Asset[id] = {} THEN Err(s, "Unknown")
    ELSE Value({
        IF maybe_check_owner # {} /\ Get(maybe_check_owner) # d.owner
        THEN Err(s, "NoPermission")
        ELSE IF d.accounts > witness.accounts
        THEN Err(s, "BadWitness")
        ELSE Value({
            Value({
                Ok(deposit_event(
                     [drain_approvals(u, id, {q \in Accounts \X Accounts :
                                                 u.Approvals[id][q[1]][q[2]] # {}})
                         EXCEPT !.Asset[id] = {}],
                     Event("Destroyed", id, d.owner, d.owner, 0)))
              : u \in {unreserve([a.st EXCEPT !.Metadata[id] = {}], d.owner,
                                 d.deposit + (IF a.st.Metadata[id] = {} THEN 0
                                              ELSE Get(a.st.Metadata[id]).deposit))} })
          : a \in {drain_accounts(s, id, d, {w \in Accounts : s.Account[id][w] # {}})} })
      : d \in s.Asset[id] })

do_destroy(s, id, witness, maybe_check_owner) ==
    IF s.Asset[id] = {} THEN Err(s, "Unknown")
    ELSE Value({
        IF maybe_check_owner # {} /\ Get(maybe_check_owner) # d.owner
        THEN Err(s, "NoPermission")
        ELSE IF d.accounts > witness.accounts \/ d.sufficients > witness.sufficients
                \/ d.approvals > witness.approvals
        THEN Err(s, "BadWitness")
        ELSE Value({
            Value({
                Ok(deposit_event(
                     [drain_approvals(u, id, {q \in Accounts \X Accounts :
                                                 u.Approvals[id][q[1]][q[2]] # {}})
                         EXCEPT !.Asset[id] = {}],
                     Event("Destroyed", id, d.owner, d.owner, 0)))
              : u \in {unreserve([a.st EXCEPT !.Metadata[id] = {}], d.owner,
                                 d.deposit + (IF a.st.Metadata[id] = {} THEN 0
                                              ELSE Get(a.st.Metadata[id]).deposit))} })
          : a \in {drain_accounts(s, id, d, {w \in Accounts : s.Account[id][w] # {}})} })
      : d \in s.Asset[id] })

(* ----------------------------- dispatchables --------------------------- *)
(* Each takes the storage and the call's origin and arguments and returns  *)
(* the storage as written when the call returned, with the call's result.  *)

\* Faulty variant of Dispatch: no storage layer, writes made before the error
\* stay.
Dispatch_without_layer(s, r) == r

\* A dispatchable runs in a storage layer: what it wrote is kept only when it
\* returns Ok.
Dispatch(s, r) == IF r.res = "Ok" THEN r ELSE [st |-> s, res |-> r.res]

set_custodian(s, origin, custodian) ==
    IF origin # Root THEN Err(s, "BadOrigin")
    ELSE Ok(deposit_event([s EXCEPT !.Custodian = {custodian}],
                          Event("CustodianSet", 0, custodian, custodian, 0)))

\* Faulty variant of create: the caller, not the custodian, gets the roles.
create_caller_team(s, origin, name, symbol, id) ==
    IF origin = Root THEN Err(s, "BadOrigin")
    ELSE IF s.Custodian = {} THEN Err(s, "NoCustodian")
    ELSE LET g == get_new_asset_id(s, origin, id)
             r == reserve(g.st, origin, AssetDeposit)
             ins == deposit_event(
                      [r.st EXCEPT !.Asset[id] =
                          {AssetDetails(origin, origin, origin, origin, AssetDeposit, 1, FALSE)}],
                      Event("Created", id, origin, origin, 0))
         IN  IF g.res # "Ok" THEN g
             ELSE IF r.res # "Ok" THEN r
             ELSE do_set_metadata(ins, id, origin, name, symbol, 9)

\* `id` is the identifier that get_new_asset_id derives for this call.
create(s, origin, name, symbol, id) ==
    IF origin = Root THEN Err(s, "BadOrigin")
    ELSE IF s.Custodian = {} THEN Err(s, "NoCustodian")
    ELSE LET admin == Get(s.Custodian)
             g == get_new_asset_id(s, origin, id)
             r == reserve(g.st, origin, AssetDeposit)
             ins == deposit_event(
                      [r.st EXCEPT !.Asset[id] =
                          {AssetDetails(origin, admin, admin, admin, AssetDeposit, 1, FALSE)}],
                      Event("Created", id, origin, origin, 0))
         IN  IF g.res # "Ok" THEN g
             ELSE IF r.res # "Ok" THEN r
             ELSE do_set_metadata(ins, id, origin, name, symbol, 9)

\* Faulty variant of set_project_data: url and data_ipfs change places.
set_project_data_swapped(s, origin, id, url, data_ipfs) ==
    IF origin = Root THEN Err(s, "BadOrigin")
    ELSE update_metadata(s, id, origin, data_ipfs, url)

set_project_data(s, origin, id, url, data_ipfs) ==
    IF origin = Root THEN Err(s, "BadOrigin")
    ELSE update_metadata(s, id, origin, url, data_ipfs)

force_create(s, origin, id, owner, is_sufficient, min_balance) ==
    IF origin # Root THEN Err(s, "BadOrigin")
    ELSE do_force_create(s, id, owner, is_sufficient, min_balance)

destroy(s, origin, id, witness) ==
    do_destroy(s, id, witness, IF origin = Root THEN NoneOf ELSE Some(origin))

\* Faulty variant of mint: the caller is not checked against the issuer.
mint_unchecked(s, origin, id, amount) ==
    IF origin = Root THEN Err(s, "BadOrigin")
    ELSE IF s.Asset[id] = {} THEN Err(s, "Unknown")
    ELSE do_mint(s, id, Get(s.Asset[id]).owner, amount, NoneOf)

\* Faulty variant of mint: the caller is credited instead of the owner.
mint_to_caller(s, origin, id, amount) ==
    IF origin = Root THEN Err(s, "BadOrigin")
    ELSE IF s.Asset[id] = {} THEN Err(s, "Unknown")
    ELSE do_mint(s, id, origin, amount, Some(origin))

mint(s, origin, id, amount) ==
    IF origin = Root THEN Err(s, "BadOrigin")
    ELSE IF s.Asset[id] = {} THEN Err(s, "Unknown")
    ELSE do_mint(s, id, Get(s.Asset[id]).owner, amount, Some(origin))

\* Faulty variant of BurnCertificateMutate: the certificate is overwritten.
BurnCertificateMutate_overwrite(s, who, id, amount) ==
    [s EXCEPT !.BurnCertificate[who][id] = {amount}]

\* BurnCertificate::mutate(who, id, ..): create-or-add of the commanded amount.
BurnCertificateMutate(s, who, id, amount) ==
    [s EXCEPT !.BurnCertificate[who][id] =
        IF @ # {} THEN {saturating_add(Get(@), amount)} ELSE {amount}]

\* Faulty variant of burn: the certificate grows by the amount actually
\* debited, not by the commanded amount.
burn_certifies_actual(s, origin, id, who, amount) ==
    IF origin = Root THEN Err(s, "BadOrigin")
    ELSE Value({
        IF r.res # "Ok" THEN Err(r.st, r.res)
        ELSE Ok(deposit_event(BurnCertificateMutate(r.st, who, id, r.actual),
                              Event("CarbonCreditsBurned", id, who, who, amount)))
      : r \in {do_burn(s, id, who, amount, Some(origin), DebitFlags(FALSE, FALSE))} })

burn(s, origin, id, who, amount) ==
    IF origin = Root THEN Err(s, "BadOrigin")
    ELSE Value({
        IF r.res # "Ok" THEN Err(r.st, r.res)
        ELSE Ok(deposit_event(BurnCertificateMutate(r.st, who, id, amount),
                              Event("CarbonCreditsBurned", id, who, who, amount)))
      : r \in {do_burn(s, id, who, amount, Some(origin), DebitFlags(FALSE, FALSE))} })

self_burn(s, origin, id, amount) ==
    IF origin = Root THEN Err(s, "BadOrigin")
    ELSE Value({
        IF r.res # "Ok" THEN Err(r.st, r.res)
        ELSE Ok(deposit_event(
                  BurnCertificateMutate(
                      deposit_event(r.st, Event("Burned", id, origin, origin, r.actual)),
                      origin, id, amount),
                  Event("CarbonCreditsBurned", id, origin, origin, amount)))
      : r \in {decrease_balance(s, id, origin, amount, DebitFlags(FALSE, FALSE),
                                [fn |-> "self_burn"])} })

\* Faulty variant of transfer: the source is kept alive.
transfer_as_keep_alive(s, origin, id, target, amount) ==
    IF origin = Root THEN Err(s, "BadOrigin")
    ELSE do_transfer(s, id, origin, target, amount, NoneOf, TransferFlags(TRUE, FALSE, FALSE))

transfer(s, origin, id, target, amount) ==
    IF origin = Root THEN Err(s, "BadOrigin")
    ELSE do_transfer(s, id, origin, target, amount, NoneOf, TransferFlags(FALSE, FALSE, FALSE))

transfer_keep_alive(s, origin, id, target, amount) ==
    IF origin = Root THEN Err(s, "BadOrigin")
    ELSE do_transfer(s, id, origin, target, amount, NoneOf, TransferFlags(TRUE, FALSE, FALSE))

force_transfer(s, origin, id, source, dest, amount) ==
    IF origin = Root THEN Err(s, "BadOrigin")
    ELSE do_transfer(s, id, source, dest, amount, Some(origin),
                     TransferFlags(FALSE, FALSE, FALSE))

freeze(s, origin, id, who) ==
    IF origin = Root THEN Err(s, "BadOrigin")
    ELSE IF s.Asset[id] = {} THEN Err(s, "Unknown")
    ELSE IF origin # Get(s.Asset[id]).freezer THEN Err(s, "NoPermission")
    ELSE IF s.Account[id][who] = {} THEN Err(s, "NoAccount")
    ELSE Ok(deposit_event(
              [s EXCEPT !.Account[id][who] = {[Get(@) EXCEPT !.is_frozen = TRUE]}],
              Event("Frozen", id, who, who, 0)))

\* Faulty variant of thaw: the account's flag is left set.
thaw_keeps_frozen(s, origin, id, who) ==
    IF origin = Root THEN Err(s, "BadOrigin")
    ELSE IF s.Asset[id] = {} THEN Err(s, "Unknown")
    ELSE IF origin # Get(s.Asset[id]).admin THEN Err(s, "NoPermission")
    ELSE IF s.Account[id][who] = {} THEN Err(s, "NoAccount")
    ELSE Ok(deposit_event(s, Event("Thawed", id, who, who, 0)))

\* Faulty variant of thaw: the caller is compared with the freezer.
thaw_by_freezer(s, origin, id, who) ==
    IF origin = Root THEN Err(s, "BadOrigin")
    ELSE IF s.Asset[id] = {} THEN Err(s, "Unknown")
    ELSE IF origin # Get(s.Asset[id]).freezer THEN Err(s, "NoPermission")
    ELSE IF s.Account[id][who] = {} THEN Err(s, "NoAccount")
    ELSE Ok(deposit_event(
              [s EXCEPT !.Account[id][who] = {[Get(@) EXCEPT !.is_frozen = FALSE]}],
              Event("Thawed", id, who, who, 0)))

thaw(s, origin, id, who) ==
    IF origin = Root THEN Err(s, "BadOrigin")
    ELSE IF s.Asset[id] = {} THEN Err(s, "Unknown")
    ELSE IF origin # Get(s.Asset[id]).admin THEN Err(s, "NoPermission")
    ELSE IF s.Account[id][who] = {} THEN Err(s, "NoAccount")
    ELSE Ok(deposit_event(
              [s EXCEPT !.Account[id][who] = {[Get(@) EXCEPT !.is_frozen = FALSE]}],
              Event("Thawed", id, who, who, 0)))

\* Faulty variant of freeze_asset: the class's flag is left clear.
freeze_asset_keeps_thawed(s, origin, id) ==
    IF origin = Root THEN Err(s, "BadOrigin")
    ELSE IF s.Asset[id] = {} THEN Err(s, "Unknown")
    ELSE IF origin # Get(s.Asset[id]).freezer THEN Err(s, "NoPermission")
    ELSE Ok(deposit_event(s, Event("AssetFrozen", id, origin, origin, 0)))

freeze_asset(s, origin, id) ==
    IF origin = Root THEN Err(s, "BadOrigin")
    ELSE IF s.Asset[id] = {} THEN Err(s, "Unknown")
    ELSE IF origin # Get(s.Asset[id]).freezer THEN Err(s, "NoPermission")
    ELSE Ok(deposit_event([s EXCEPT !.Asset[id] = {[Get(@) EXCEPT !.is_frozen = TRUE]}],
                          Event("AssetFrozen", id, origin, origin, 0)))

thaw_asset(s, origin, id) ==
    IF origin = Root THEN Err(s, "BadOrigin")
    ELSE IF s.Asset[id] = {} THEN Err(s, "Unknown")
    ELSE IF origin # Get(s.Asset[id]).admin THEN Err(s, "NoPermission")
    ELSE Ok(deposit_event([s EXCEPT !.Asset[id] = {[Get(@) EXCEPT !.is_frozen = FALSE]}],
                          Event("AssetThawed", id, origin, origin, 0)))

transfer_ownership(s, origin, id, owner) ==
    IF origin = Root THEN Err(s, "BadOrigin")
    ELSE IF s.Asset[id] = {} THEN Err(s, "Unknown")
    ELSE LET details == Get(s.Asset[id])
             metadata_deposit == IF s.Metadata[id] = {} THEN 0 ELSE Get(s.Metadata[id]).deposit
             r == repatriate_reserved(s, details.owner, owner,
                                      details.deposit + metadata_deposit)
         IN  IF origin # details.owner THEN Err(s, "NoPermission")
             ELSE IF details.owner = owner THEN Ok(s)
             ELSE IF r.res # "Ok" THEN r
             ELSE Ok(deposit_event([r.st EXCEPT !.Asset[id] = {[details EXCEPT !.owner = owner]}],
                                   Event("OwnerChanged", id, owner, owner, 0)))

\* Faulty variant of force_set_metadata: the asset is not required to exist.
force_set_metadata_any_id(s, origin, id, name, symbol, url, data_ipfs, decimals, is_frozen) ==
    IF origin # Root THEN Err(s, "BadOrigin")
    ELSE LET deposit == IF s.Metadata[id] = {} THEN 0 ELSE Get(s.Metadata[id]).deposit
             m == AssetMetadata(deposit, name, symbol, url, data_ipfs, decimals, is_frozen)
         IN  Ok(deposit_event([s EXCEPT !.Metadata[id] = {m}],
                              Event("MetadataSet", id, 0, 0, decimals)))

force_set_metadata(s, origin, id, name, symbol, url, data_ipfs, decimals, is_frozen) ==
    IF origin # Root THEN Err(s, "BadOrigin")
    ELSE IF Len(name) > StringLimit \/ Len(symbol) > StringLimit
            \/ Len(url) > StringLimit \/ Len(data_ipfs) > StringLimit
    THEN Err(s, "BadMetadata")
    ELSE IF s.Asset[id] = {} THEN Err(s, "Unknown")
    ELSE LET deposit == IF s.Metadata[id] = {} THEN 0 ELSE Get(s.Metadata[id]).deposit
             m == AssetMetadata(deposit, name, symbol, url, data_ipfs, decimals, is_frozen)
         IN  Ok(deposit_event(
                  deposit_event([s EXCEPT !.Metadata[id] = {m}],
                                Event("MetadataSet", id, 0, 0, decimals)),
                  Event("MetadataUpdated", id, 0, 0, 0)))

force_clear_metadata(s, origin, id) ==
    IF origin # Root THEN Err(s, "BadOrigin")
    ELSE IF s.Asset[id] = {} THEN Err(s, "Unknown")
    ELSE IF s.Metadata[id] = {} THEN Err(s, "Unknown")
    ELSE Ok(deposit_event(
              [unreserve(s, Get(s.Asset[id]).owner, Get(s.Metadata[id]).deposit)
                  EXCEPT !.Metadata[id] = {}],
              Event("MetadataCleared", id, 0, 0, 0)))

\* Faulty variant of force_asset_status: min_balance is left as it was.
force_asset_status_keeps_minimum(s, origin, id, st) ==
    IF origin # Root THEN Err(s, "BadOrigin")
    ELSE IF s.Asset[id] = {} THEN Err(s, "Unknown")
    ELSE Ok(deposit_event(
              [s EXCEPT !.Asset[id] =
                  {[Get(@) EXCEPT !.owner = st[1], !.issuer = st[2], !.admin = st[3],
                                  !.freezer = st[4],
                                  !.is_sufficient = st[6], !.is_frozen = st[7]]}],
              Event("AssetStatusChanged", id, 0, 0, 0)))

\* Faulty variant of force_asset_status: the details are built afresh, which
\* zeroes the counters.
force_asset_status_fresh_details(s, origin, id, st) ==
    IF origin # Root THEN Err(s, "BadOrigin")
    ELSE IF s.Asset[id] = {} THEN Err(s, "Unknown")
    ELSE Ok(deposit_event(
              [s EXCEPT !.Asset[id] =
                  {[AssetDetails(st[1], st[2], st[3], st[4], Get(@).deposit, st[5], st[6])
                       EXCEPT !.supply = Get(s.Asset[id]).supply, !.is_frozen = st[7]]}],
              Event("AssetStatusChanged", id, 0, 0, 0)))

\* `st` is <<owner, issuer, admin, freezer, min_balance, is_sufficient, is_frozen>>.
force_asset_status(s, origin, id, st) ==
    IF origin # Root THEN Err(s, "BadOrigin")
    ELSE IF s.Asset[id] = {} THEN Err(s, "Unknown")
    ELSE Ok(deposit_event(
              [s EXCEPT !.Asset[id] =
                  {[Get(@) EXCEPT !.owner = st[1], !.issuer = st[2], !.admin = st[3],
                                  !.freezer = st[4], !.min_balance = st[5],
                                  !.is_sufficient = st[6], !.is_frozen = st[7]]}],
              Event("AssetStatusChanged", id, 0, 0, 0)))

approve_transfer(s, origin, id, delegate, amount) ==
    IF origin = Root THEN Err(s, "BadOrigin")
    ELSE do_approve_transfer(s, id, origin, delegate, amount)

\* Faulty variant of take_approval: the `approvals` counter is not decremented.
take_approval_keeps_counter(s, id, owner, delegate) ==
    IF s.Approvals[id][owner][delegate] = {} THEN Err(s, "Unknown")
    ELSE Ok(deposit_event(
              unreserve([s EXCEPT !.Approvals[id][owner][delegate] = {}], owner,
                        Get(s.Approvals[id][owner][delegate]).deposit),
              Event("ApprovalCancelled", id, owner, delegate, 0)))

\* Faulty variant of take_approval: the approval's deposit stays reserved.
take_approval_keeps_deposit(s, id, owner, delegate) ==
    IF s.Approvals[id][owner][delegate] = {} THEN Err(s, "Unknown")
    ELSE Ok(deposit_event(
              [s EXCEPT !.Approvals[id][owner][delegate] = {},
                        !.Asset[id] = {[Get(@) EXCEPT !.approvals = saturating_sub(@, 1)]}],
              Event("ApprovalCancelled", id, owner, delegate, 0)))

\* Approvals::take, unreserve and the counter decrement shared by both cancels.
take_approval(s, id, owner, delegate) ==
    IF s.Approvals[id][owner][delegate] = {} THEN Err(s, "Unknown")
    ELSE LET approval == Get(s.Approvals[id][owner][delegate])
             u == unreserve([s EXCEPT !.Approvals[id][owner][delegate] = {}],
                            owner, approval.deposit)
         IN  Ok(deposit_event(
                  [u EXCEPT !.Asset[id] =
                      {[Get(s.Asset[id]) EXCEPT !.approvals = saturating_sub(@, 1)]}],
                  Event("ApprovalCancelled", id, owner, delegate, 0)))

cancel_approval(s, origin, id, delegate) ==
    IF origin = Root THEN Err(s, "BadOrigin")
    ELSE IF s.Asset[id] = {} THEN Err(s, "Unknown")
    ELSE take_approval(s, id, origin, delegate)

force_cancel_approval(s, origin, id, owner, delegate) ==
    IF s.Asset[id] = {} THEN Err(s, "Unknown")
    ELSE IF origin # Root /\ origin # Get(s.Asset[id]).admin THEN Err(s, "NoPermission")
    ELSE take_approval(s, id, owner, delegate)

\* Faulty variant of transfer_approved: owner and delegate change places.
transfer_approved_by_owner(s, origin, id, owner, destination, amount) ==
    IF origin = Root THEN Err(s, "BadOrigin")
    ELSE do_transfer_approved(s, id, origin, owner, destination, amount)

transfer_approved(s, origin, id, owner, destination, amount) ==
    IF origin = Root THEN Err(s, "BadOrigin")
    ELSE do_transfer_approved(s, id, owner, origin, destination, amount)

touch(s, origin, id) ==
    IF origin = Root THEN Err(s, "BadOrigin") ELSE do_touch(s, id, origin)

\* Faulty variant of refund: the balance is burned whether or not the caller
\* allows it.
refund_always_burns(s, origin, id, allow_burn) ==
    IF origin = Root THEN Err(s, "BadOrigin") ELSE do_refund(s, id, origin, TRUE)

refund(s, origin, id, allow_burn) ==
    IF origin = Root THEN Err(s, "BadOrigin") ELSE do_refund(s, id, origin, allow_burn)

(* --------------------------- inputs explored --------------------------- *)

Origins == Accounts \cup {Root}

Amounts == 0 .. MaxBalance

\* <<owner, is_sufficient, min_balance>> of the force_create calls explored.
ForceCreateInputs == {<<1, TRUE, 1>>, <<1, FALSE, 2>>, <<3, FALSE, 1>>, <<2, TRUE, 0>>}

\* <<owner, issuer, admin, freezer, min_balance, is_sufficient, is_frozen>> of
\* the force_asset_status calls explored.
StatusInputs ==
    {<<2, 2, 2, 2, 2, TRUE, FALSE>>, <<1, 2, 3, 1, 0, FALSE, FALSE>>,
     <<1, 1, 1, 1, 1, FALSE, TRUE>>}

Strings == {Name, TooLong}

Witnesses == {DestroyWitness(a, a, a) : a \in 0 .. 3}

\* Witnesses that differ in each count.
WitnessTriples == {DestroyWitness(a, b, c) : a \in 0 .. 3, b \in 0 .. 2, c \in 0 .. 2}

\* Every call explored: the dispatchable, the origin and the arguments.
Calls ==
    {[op |-> "set_custodian", origin |-> Root, a |-> c] : c \in {1, 2}}
    \cup {[op |-> "create", origin |-> o, id |-> id, name |-> n] :
             o \in Accounts, id \in Ids, n \in Strings}
    \cup {[op |-> "force_create", origin |-> Root, id |-> id, input |-> i] :
             id \in Ids, i \in ForceCreateInputs}
    \cup {[op |-> "destroy", origin |-> o, id |-> id, witness |-> w] :
             o \in Origins, id \in Ids, w \in Witnesses}
    \cup {[op |-> op, origin |-> o, id |-> id, amount |-> n] :
             op \in {"mint", "self_burn"}, o \in Accounts, id \in Ids, n \in Amounts}
    \cup {[op |-> op, origin |-> o, id |-> id, a |-> who, amount |-> n] :
             op \in {"burn", "transfer", "transfer_keep_alive", "approve_transfer"},
             o \in Accounts, id \in Ids, who \in Accounts, n \in Amounts}
    \cup {[op |-> op, origin |-> o, id |-> id, a |-> a, b |-> b, amount |-> n] :
             op \in {"force_transfer", "transfer_approved"},
             o \in Accounts, id \in Ids, a \in Accounts, b \in Accounts, n \in Amounts}
    \cup {[op |-> op, origin |-> o, id |-> id, a |-> who] :
             op \in {"freeze", "thaw", "transfer_ownership", "cancel_approval"},
             o \in Accounts, id \in Ids, who \in Accounts}
    \cup {[op |-> op, origin |-> o, id |-> id] :
             op \in {"freeze_asset", "thaw_asset", "touch"}, o \in Accounts, id \in Ids}
    \cup {[op |-> "set_project_data", origin |-> o, id |-> id, data_ipfs |-> d] :
             o \in Accounts, id \in Ids, d \in {Url, TooLong}}
    \cup {[op |-> "force_set_metadata", origin |-> Root, id |-> id, is_frozen |-> fz] :
             id \in Ids, fz \in BOOLEAN}
    \cup {[op |-> "force_clear_metadata", origin |-> Root, id |-> id] : id \in Ids}
    \cup {[op |-> "force_asset_status", origin |-> Root, id |-> id, status |-> st] :
             id \in Ids, st \in StatusInputs}
    \cup {[op |-> "force_cancel_approval", origin |-> o, id |-> id, a |-> a, b |-> b] :
             o \in Origins, id \in Ids, a \in Accounts, b \in Accounts}
    \cup {[op |-> "refund", origin |-> o, id |-> id, allow_burn |-> b] :
             o \in Accounts, id \in Ids, b \in BOOLEAN}

\* What call c returns when made on storage s.
Exec(s, c) ==
    CASE c.op = "set_custodian" -> set_custodian(s, c.origin, c.a)
      [] c.op = "create" -> create(s, c.origin, c.name, Symbol, c.id)
      [] c.op = "force_create" ->
             force_create(s, c.origin, c.id, c.input[1], c.input[2], c.input[3])
      [] c.op = "destroy" -> destroy(s, c.origin, c.id, c.witness)
      [] c.op = "mint" -> mint(s, c.origin, c.id, c.amount)
      [] c.op = "burn" -> burn(s, c.origin, c.id, c.a, c.amount)
      [] c.op = "self_burn" -> self_burn(s, c.origin, c.id, c.amount)
      [] c.op = "transfer" -> transfer(s, c.origin, c.id, c.a, c.amount)
      [] c.op = "transfer_keep_alive" -> transfer_keep_alive(s, c.origin, c.id, c.a, c.amount)
      [] c.op = "force_transfer" -> force_transfer(s, c.origin, c.id, c.a, c.b, c.amount)
      [] c.op = "freeze" -> freeze(s, c.origin, c.id, c.a)
      [] c.op = "thaw" -> thaw(s, c.origin, c.id, c.a)
      [] c.op = "freeze_asset" -> freeze_asset(s, c.origin, c.id)
      [] c.op = "thaw_asset" -> thaw_asset(s, c.origin, c.id)
      [] c.op = "transfer_ownership" -> transfer_ownership(s, c.origin, c.id, c.a)
      [] c.op = "set_project_data" -> set_project_data(s, c.origin, c.id, Url, c.data_ipfs)
      [] c.op = "force_set_metadata" ->
             force_set_metadata(s, c.origin, c.id, Name, Symbol, <<>>, Url, 9, c.is_frozen)
      [] c.op = "force_clear_metadata" -> force_clear_metadata(s, c.origin, c.id)
      [] c.op = "force_asset_status" -> force_asset_status(s, c.origin, c.id, c.status)
      [] c.op = "approve_transfer" -> approve_transfer(s, c.origin, c.id, c.a, c.amount)
      [] c.op = "cancel_approval" -> cancel_approval(s, c.origin, c.id, c.a)
      [] c.op = "force_cancel_approval" -> force_cancel_approval(s, c.origin, c.id, c.a, c.b)
      [] c.op = "transfer_approved" ->
             transfer_approved(s, c.origin, c.id, c.a, c.b, c.amount)
      [] c.op = "touch" -> touch(s, c.origin, c.id)
      [] c.op = "refund" -> refund(s, c.origin, c.id, c.allow_burn)

(* ------------------------------ behaviour ------------------------------ *)

\* The storage a state holds once the command's events have been delivered.
Settled(s) == [s EXCEPT !.events = <<>>, !.died = <<>>]

\* The storage before the genesis build: nothing stored, the nonce at its
\* default, the native ledger as endowed.
EmptyStorage ==
    [Custodian |-> {}, LastNonce |-> InitialNonce,
     Asset |-> [id \in Ids |-> {}],
     Account |-> [id \in Ids |-> [who \in Accounts |-> {}]],
     Approvals |-> [id \in Ids |-> [o \in Accounts |-> [d \in Accounts |-> {}]]],
     Metadata |-> [id \in Ids |-> {}],
     BurnCertificate |-> [who \in Accounts |-> [id \in Ids |-> {}]],
     free |-> Endowment,
     reserved |-> [a \in Accounts |-> 0],
     consumers |-> [a \in Accounts |-> 0],
     sufficients |-> [a \in Accounts |-> 0],
     events |-> <<>>, died |-> <<>>]

GenesisConfig(custodian, assets, metadata, accounts) ==
    [custodian |-> custodian, assets |-> assets, metadata |-> metadata,
     accounts |-> accounts]

\* Genesis assets: <<id, owner, is_sufficient, min_balance>>.
RECURSIVE genesis_assets(_, _)
genesis_assets(s, assets) ==
    IF assets = <<>> THEN s
    ELSE genesis_assets(
           [s EXCEPT !.Asset[Head(assets)[1]] =
               {AssetDetails(Head(assets)[2], Head(assets)[2], Head(assets)[2],
                             Head(assets)[2], 0, Head(assets)[4], Head(assets)[3])}],
           Tail(assets))

\* Genesis metadata: <<id, name, symbol, decimals>>.
RECURSIVE genesis_metadata(_, _)
genesis_metadata(s, metadata) ==
    IF metadata = <<>> THEN s
    ELSE genesis_metadata(
           [s EXCEPT !.Metadata[Head(metadata)[1]] =
               {AssetMetadata(0, Head(metadata)[2], Head(metadata)[3], <<>>, <<>>,
                              Head(metadata)[4], FALSE)}],
           Tail(metadata))

\* Genesis accounts: <<id, account_id, balance>>, each credited as an issue.
RECURSIVE genesis_accounts(_, _)
genesis_accounts(s, accounts) ==
    IF accounts = <<>> THEN s
    ELSE genesis_accounts(
           do_mint(s, Head(accounts)[1], Head(accounts)[2], Head(accounts)[3], NoneOf).st,
           Tail(accounts))

build(config) ==
    genesis_accounts(
        genesis_metadata(
            genesis_assets([EmptyStorage EXCEPT !.Custodian = config.custodian],
                           config.assets),
            config.metadata),
        config.accounts)

\* The genesis configurations explored: the default one, one with a
\* self-sufficient asset class that already has a holder, and one with an
\* asset class that has not been issued yet.
GenesisConfigs ==
    {GenesisConfig(NoneOf, <<>>, <<>>, <<>>),
     GenesisConfig(Some(1), << <<1, 2, TRUE, 1>> >>, << <<1, Name, Symbol, 10>> >>,
                   << <<1, 1, 2>> >>),
     GenesisConfig(Some(2), << <<1, 1, FALSE, 2>> >>, << <<1, Name, Symbol, 10>> >>,
                   <<>>)}

Init ==
    \E config \in GenesisConfigs :
        \E s \in {Settled(build(config))} :
            /\ Custodian = s.Custodian
            /\ LastNonce = s.LastNonce
            /\ Asset = s.Asset
            /\ Account = s.Account
            /\ Approvals = s.Approvals
            /\ Metadata = s.Metadata
            /\ BurnCertificate = s.BurnCertificate
            /\ free = s.free
            /\ reserved = s.reserved
            /\ consumers = s.consumers
            /\ sufficients = s.sufficients
            /\ commands = 0
            /\ Fuse = FALSE
            /\ AccountRegistry = [who \in Accounts |-> {}]

\* Runs a call to completion and commits what its storage layer kept.
Apply(r) ==
    /\ commands < MaxCommands
    /\ \E q \in {Dispatch(Storage, r)} :
        /\ q.res = "Ok"
        /\ Custodian' = q.st.Custodian
        /\ LastNonce' = q.st.LastNonce
        /\ Asset' = q.st.Asset
        /\ Account' = q.st.Account
        /\ Approvals' = q.st.Approvals
        /\ Metadata' = q.st.Metadata
        /\ BurnCertificate' = q.st.BurnCertificate
        /\ free' = q.st.free
        /\ reserved' = q.st.reserved
        /\ consumers' = q.st.consumers
        /\ sufficients' = q.st.sufficients
        /\ commands' = IF Settled(q.st) = Storage THEN commands ELSE commands + 1
        /\ UNCHANGED <<Fuse, AccountRegistry>>

SetCustodian == \E c \in {1, 2} : Apply(set_custodian(Storage, Root, c))

Create ==
    \E o \in Accounts, n \in Strings, id \in Ids :
        Apply(create(Storage, o, n, Symbol, id))

ForceCreate ==
    \E id \in Ids, i \in ForceCreateInputs :
        Apply(force_create(Storage, Root, id, i[1], i[2], i[3]))

Destroy ==
    \E o \in Origins, id \in Ids, w \in Witnesses : Apply(destroy(Storage, o, id, w))

Mint == \E o \in Accounts, id \in Ids, n \in Amounts : Apply(mint(Storage, o, id, n))

Burn ==
    \E o \in Accounts, id \in Ids, who \in Accounts, n \in Amounts :
        Apply(burn(Storage, o, id, who, n))

SelfBurn == \E o \in Accounts, id \in Ids, n \in Amounts : Apply(self_burn(Storage, o, id, n))

Transfer ==
    \E o \in Accounts, id \in Ids, t \in Accounts, n \in Amounts :
        Apply(transfer(Storage, o, id, t, n))

TransferKeepAlive ==
    \E o \in Accounts, id \in Ids, t \in Accounts, n \in Amounts :
        Apply(transfer_keep_alive(Storage, o, id, t, n))

ForceTransfer ==
    \E o \in Accounts, id \in Ids, src \in Accounts, t \in Accounts, n \in Amounts :
        Apply(force_transfer(Storage, o, id, src, t, n))

Freeze == \E o \in Accounts, id \in Ids, who \in Accounts : Apply(freeze(Storage, o, id, who))

Thaw == \E o \in Accounts, id \in Ids, who \in Accounts : Apply(thaw(Storage, o, id, who))

FreezeAsset == \E o \in Accounts, id \in Ids : Apply(freeze_asset(Storage, o, id))

ThawAsset == \E o \in Accounts, id \in Ids : Apply(thaw_asset(Storage, o, id))

TransferOwnership ==
    \E o \in Accounts, id \in Ids, n \in Accounts : Apply(transfer_ownership(Storage, o, id, n))

SetProjectData ==
    \E o \in Accounts, id \in Ids, d \in {Url, TooLong} :
        Apply(set_project_data(Storage, o, id, Url, d))

ForceSetMetadata ==
    \E id \in Ids, fz \in BOOLEAN :
        Apply(force_set_metadata(Storage, Root, id, Name, Symbol, <<>>, Url, 9, fz))

ForceClearMetadata == \E id \in Ids : Apply(force_clear_metadata(Storage, Root, id))

ForceAssetStatus ==
    \E id \in Ids, st \in StatusInputs : Apply(force_asset_status(Storage, Root, id, st))

ApproveTransfer ==
    \E o \in Accounts, id \in Ids, d \in Accounts, n \in Amounts :
        Apply(approve_transfer(Storage, o, id, d, n))

CancelApproval ==
    \E o \in Accounts, id \in Ids, d \in Accounts : Apply(cancel_approval(Storage, o, id, d))

ForceCancelApproval ==
    \E o \in Origins, id \in Ids, w \in Accounts, d \in Accounts :
        Apply(force_cancel_approval(Storage, o, id, w, d))

TransferApproved ==
    \E o \in Accounts, id \in Ids, w \in Accounts, t \in Accounts, n \in Amounts :
        Apply(transfer_approved(Storage, o, id, w, t, n))

Touch == \E o \in Accounts, id \in Ids : Apply(touch(Storage, o, id))

Refund == \E o \in Accounts, id \in Ids, b \in BOOLEAN : Apply(refund(Storage, o, id, b))

Next ==
    \/ SetCustodian \/ Create \/ ForceCreate \/ Destroy
    \/ Mint \/ Burn \/ SelfBurn
    \/ Transfer \/ TransferKeepAlive \/ ForceTransfer
    \/ Freeze \/ Thaw \/ FreezeAsset \/ ThawAsset
    \/ TransferOwnership \/ SetProjectData \/ ForceSetMetadata \/ ForceClearMetadata
    \/ ForceAssetStatus
    \/ ApproveTransfer \/ CancelApproval \/ ForceCancelApproval \/ TransferApproved
    \/ Touch \/ Refund

Spec == Init /\ [][Next]_vars

(* ---------------------- evercity-accounts registry --------------------- *)

\* RoleMask is u32; a role is one bit.
MASTER_ROLE_MASK == 1

CUSTODIAN_ROLE_MASK == 2

ISSUER_ROLE_MASK == 4

\* The thirteen role bits together.
ALL_ROLES_MASK == 8191

\* The bitwise operators of RoleMask: &, | and ^.
RECURSIVE BitAnd(_, _)
BitAnd(a, b) ==
    IF a = 0 \/ b = 0 THEN 0
    ELSE (a % 2) * (b % 2) + 2 * BitAnd(a \div 2, b \div 2)

RECURSIVE BitOr(_, _)
BitOr(a, b) ==
    IF a = 0 THEN b
    ELSE IF b = 0 THEN a
    ELSE (IF a % 2 = 1 \/ b % 2 = 1 THEN 1 ELSE 0) + 2 * BitOr(a \div 2, b \div 2)

RECURSIVE BitXor(_, _)
BitXor(a, b) ==
    IF a = 0 THEN b
    ELSE IF b = 0 THEN a
    ELSE ((a + b) % 2) + 2 * BitXor(a \div 2, b \div 2)

is_roles_correct(roles) == roles <= ALL_ROLES_MASK /\ roles > 0

is_roles_mask_included(roles, const_mask) == BitAnd(roles, const_mask) # 0 /\ roles > 0

\* pallet_timestamp's `Now`, which no call of the registry moves.
Timestamp == 0

AccountStruct(roles, identity, create_time) ==
    [roles |-> roles, identity |-> identity, create_time |-> create_time]

\* The registry's storage as one value, with the events of the running call.
RegistryStorage == [Fuse |-> Fuse, AccountRegistry |-> AccountRegistry, events |-> <<>>]

\* AccountRegistry::get: the stored record, or the default one.
account_registry(s, acc) ==
    IF s.AccountRegistry[acc] = {} THEN AccountStruct(0, 0, 0) ELSE Get(s.AccountRegistry[acc])

\* AccountRegistry::mutate: the record, or the default one, is changed and
\* stored.
registry_mutate(s, who, roles) ==
    [s EXCEPT !.AccountRegistry[who] = {[account_registry(s, who) EXCEPT !.roles = roles]}]

account_is_master(s, acc) == BitAnd(account_registry(s, acc).roles, MASTER_ROLE_MASK) # 0

RegistryEvent(name, master, account, role, identity) ==
    [name |-> name, master |-> master, account |-> account, role |-> role,
     identity |-> identity]

set_master(s, origin) ==
    IF origin = Root THEN Err(s, "BadOrigin")
    ELSE IF s.Fuse THEN Err(s, "InvalidAction")
    ELSE Ok([s EXCEPT !.AccountRegistry[origin] =
                         {AccountStruct(MASTER_ROLE_MASK, 0, Timestamp)},
                      !.Fuse = TRUE])

account_add_with_role_and_data(s, origin, who, role, identity) ==
    IF origin = Root THEN Err(s, "BadOrigin")
    ELSE IF ~account_is_master(s, origin) THEN Err(s, "AccountNotAuthorized")
    ELSE IF s.AccountRegistry[who] # {} THEN Err(s, "AccountToAddAlreadyExists")
    ELSE IF ~is_roles_correct(role) THEN Err(s, "AccountRoleParamIncorrect")
    ELSE IF is_roles_mask_included(role, MASTER_ROLE_MASK)
    THEN Err(s, "AccountRoleMasterIncluded")
    ELSE Ok(deposit_event(
              [s EXCEPT !.AccountRegistry[who] = {AccountStruct(role, identity, Timestamp)}],
              RegistryEvent("AccountAdd", origin, who, role, identity)))

account_set_with_role_and_data(s, origin, who, role) ==
    IF origin = Root THEN Err(s, "BadOrigin")
    ELSE IF origin = who THEN Err(s, "InvalidAction")
    ELSE IF ~account_is_master(s, origin) THEN Err(s, "AccountNotAuthorized")
    ELSE IF s.AccountRegistry[who] = {} THEN Err(s, "AccountNotExist")
    ELSE IF ~is_roles_correct(role) THEN Err(s, "AccountRoleParamIncorrect")
    ELSE IF is_roles_mask_included(role, MASTER_ROLE_MASK)
    THEN Err(s, "AccountRoleMasterIncluded")
    ELSE Ok(deposit_event(
              registry_mutate(s, who, BitOr(account_registry(s, who).roles, role)),
              RegistryEvent("AccountSet", origin, who, role, 0)))

add_master_role(s, origin, who) ==
    IF origin = Root THEN Err(s, "BadOrigin")
    ELSE IF origin = who THEN Err(s, "InvalidAction")
    ELSE IF ~account_is_master(s, origin) THEN Err(s, "AccountNotAuthorized")
    ELSE IF account_is_master(s, who) THEN Err(s, "InvalidAction")
    ELSE Ok(deposit_event(
              registry_mutate(s, who, BitOr(account_registry(s, who).roles,
                                            MASTER_ROLE_MASK)),
              RegistryEvent("MasterSet", origin, who, 0, 0)))

account_withdraw_role(s, origin, who, role) ==
    IF origin = Root THEN Err(s, "BadOrigin")
    ELSE IF origin = who THEN Err(s, "InvalidAction")
    ELSE IF ~account_is_master(s, origin) THEN Err(s, "AccountNotAuthorized")
    ELSE IF s.AccountRegistry[who] = {} THEN Err(s, "AccountNotExist")
    ELSE IF ~is_roles_correct(role) THEN Err(s, "AccountRoleParamIncorrect")
    ELSE IF is_roles_mask_included(role, MASTER_ROLE_MASK)
    THEN Err(s, "AccountRoleMasterIncluded")
    ELSE Ok(deposit_event(
              registry_mutate(s, who, BitXor(account_registry(s, who).roles, role)),
              RegistryEvent("AccountWithdraw", origin, who, role, 0)))

\* Faulty variant of account_disable: the caller may name itself.
account_disable_own(s, origin, who) ==
    IF origin = Root THEN Err(s, "BadOrigin")
    ELSE IF ~account_is_master(s, origin) THEN Err(s, "AccountNotAuthorized")
    ELSE IF s.AccountRegistry[who] = {} THEN Err(s, "AccountNotExist")
    ELSE Ok(deposit_event(registry_mutate(s, who, 0),
                          RegistryEvent("AccountDisable", origin, who, 0, 0)))

account_disable(s, origin, who) ==
    IF origin = Root THEN Err(s, "BadOrigin")
    ELSE IF ~account_is_master(s, origin) THEN Err(s, "AccountNotAuthorized")
    ELSE IF origin = who THEN Err(s, "InvalidAction")
    ELSE IF s.AccountRegistry[who] = {} THEN Err(s, "AccountNotExist")
    ELSE Ok(deposit_event(registry_mutate(s, who, 0),
                          RegistryEvent("AccountDisable", origin, who, 0, 0)))

\* The role arguments explored: no role, one role, two roles, a mask with the
\* master bit, and a mask above every role.
RoleInputs ==
    {0, CUSTODIAN_ROLE_MASK, ISSUER_ROLE_MASK,
     BitOr(CUSTODIAN_ROLE_MASK, ISSUER_ROLE_MASK),
     BitOr(MASTER_ROLE_MASK, CUSTODIAN_ROLE_MASK), ALL_ROLES_MASK + 1}

\* The identity argument of account_add_with_role_and_data.
Identities == {88}

\* Every call of the registry explored.
RegistryCalls ==
    {[op |-> "set_master", origin |-> o] : o \in Origins}
    \cup {[op |-> "account_add_with_role_and_data", origin |-> o, who |-> w,
           role |-> r, identity |-> i] :
             o \in Origins, w \in Accounts, r \in RoleInputs, i \in Identities}
    \cup {[op |-> op, origin |-> o, who |-> w, role |-> r] :
             op \in {"account_set_with_role_and_data", "account_withdraw_role"},
             o \in Origins, w \in Accounts, r \in RoleInputs}
    \cup {[op |-> op, origin |-> o, who |-> w] :
             op \in {"add_master_role", "account_disable"}, o \in Origins, w \in Accounts}

\* What call c returns when made on registry storage s.
RegistryExec(s, c) ==
    CASE c.op = "set_master" -> set_master(s, c.origin)
      [] c.op = "account_add_with_role_and_data" ->
             account_add_with_role_and_data(s, c.origin, c.who, c.role, c.identity)
      [] c.op = "account_set_with_role_and_data" ->
             account_set_with_role_and_data(s, c.origin, c.who, c.role)
      [] c.op = "add_master_role" -> add_master_role(s, c.origin, c.who)
      [] c.op = "account_withdraw_role" -> account_withdraw_role(s, c.origin, c.who, c.role)
      [] c.op = "account_disable" -> account_disable(s, c.origin, c.who)

\* The genesis registries explored, as sequences of <<account, roles>>: bare
\* storage and a registry with a master, a custodian and an issuer.
RegistryGenesisConfigs ==
    {<<>>,
     << <<1, MASTER_ROLE_MASK>>, <<2, CUSTODIAN_ROLE_MASK>>, <<3, ISSUER_ROLE_MASK>> >>}

\* The registry after the genesis build: the configured records, and the fuse
\* set when there are any.
registry_build(config) ==
    [Fuse |-> config # <<>>,
     AccountRegistry |->
        [who \in Accounts |->
            {AccountStruct(config[i][2], 0, 0) : i \in {j \in DOMAIN config : config[j][1] = who}}],
     events |-> <<>>]

\* The registry at genesis, beside the assets pallet at its default genesis.
RegistryInit ==
    /\ \E config \in RegistryGenesisConfigs :
          /\ Fuse = registry_build(config).Fuse
          /\ AccountRegistry = registry_build(config).AccountRegistry
    /\ \E s \in {Settled(build(GenesisConfig(NoneOf, <<>>, <<>>, <<>>)))} :
          /\ Custodian = s.Custodian
          /\ LastNonce = s.LastNonce
          /\ Asset = s.Asset
          /\ Account = s.Account
          /\ Approvals = s.Approvals
          /\ Metadata = s.Metadata
          /\ BurnCertificate = s.BurnCertificate
          /\ free = s.free
          /\ reserved = s.reserved
          /\ consumers = s.consumers
          /\ sufficients = s.sufficients
          /\ commands = 0

\* A call of the registry that returns Ok; a call that fails has written
\* nothing.
RegistryApply(r) ==
    /\ r.res = "Ok"
    /\ Fuse' = r.st.Fuse
    /\ AccountRegistry' = r.st.AccountRegistry
    /\ UNCHANGED <<Custodian, LastNonce, Asset, Account, Approvals, Metadata,
                   BurnCertificate, free, reserved, consumers, sufficients, commands>>

SetMaster == \E o \in Origins : RegistryApply(set_master(RegistryStorage, o))

AccountAddWithRoleAndData ==
    \E o \in Origins, w \in Accounts, r \in RoleInputs, i \in Identities :
        RegistryApply(account_add_with_role_and_data(RegistryStorage, o, w, r, i))

AccountSetWithRoleAndData ==
    \E o \in Origins, w \in Accounts, r \in RoleInputs :
        RegistryApply(account_set_with_role_and_data(RegistryStorage, o, w, r))

AddMasterRole ==
    \E o \in Origins, w \in Accounts : RegistryApply(add_master_role(RegistryStorage, o, w))

AccountWithdrawRole ==
    \E o \in Origins, w \in Accounts, r \in RoleInputs :
        RegistryApply(account_withdraw_role(RegistryStorage, o, w, r))

AccountDisable ==
    \E o \in Origins, w \in Accounts : RegistryApply(account_disable(RegistryStorage, o, w))

RegistryNext ==
    \/ SetMaster \/ AccountAddWithRoleAndData \/ AccountSetWithRoleAndData
    \/ AddMasterRole \/ AccountWithdrawRole \/ AccountDisable

RegistrySpec == RegistryInit /\ [][RegistryNext]_vars

(* ------------------------------ properties ----------------------------- *)

RECURSIVE SumBalances(_, _, _)
SumBalances(s, id, whos) ==
    IF whos = {} THEN 0
    ELSE LET who == CHOOSE w \in whos : TRUE
         IN  balance(s, id, who) + SumBalances(s, id, whos \ {who})

SupplyIsSum(s) ==
    \A id \in Ids :
        s.Asset[id] # {} => Get(s.Asset[id]).supply = SumBalances(s, id, Accounts)

\* C1: in every reachable state, and in the state every successful command
\* leads to, the recorded supply of every asset class equals the sum of the
\* balances of the class's accounts.
C1_SupplyIsSumOfBalances ==
    /\ SupplyIsSum(Storage)
    /\ \A c \in Calls :
          \A r \in {Exec(Storage, c)} : r.res = "Ok" => SupplyIsSum(r.st)

\* A holder whose deposit-held account has a balance can refund with
\* allow_burn, and the refund takes the residual balance off the supply.
C1_Witness ==
    \E o \in Accounts, id \in Ids :
        \E r \in {Dispatch(Storage, refund(Storage, o, id, TRUE))} :
            /\ balance(Storage, id, o) > 0
            /\ r.res = "Ok"
            /\ Get(r.st.Asset[id]).supply < Get(Asset[id]).supply

CountersMatch(s) ==
    \A id \in Ids :
        s.Asset[id] # {} =>
            /\ Get(s.Asset[id]).accounts =
                   Cardinality({w \in Accounts : s.Account[id][w] # {}})
            /\ Get(s.Asset[id]).sufficients =
                   Cardinality({w \in Accounts :
                                   /\ s.Account[id][w] # {}
                                   /\ Get(s.Account[id][w]).reason = "Sufficient"})

\* C3: in every reachable state, and in the state every successful command
\* leads to, `accounts` of every asset class is the number of its accounts and
\* `sufficients` is the number of those whose reason is Sufficient.
C3_AccountCountersMatch ==
    /\ CountersMatch(Storage)
    /\ \A c \in Calls :
          \A r \in {Exec(Storage, c)} : r.res = "Ok" => CountersMatch(r.st)

\* force_asset_status has made a class not sufficient while an account with
\* reason Sufficient exists, and that account can still be reaped.
C3_Witness ==
    \E id \in Ids, w \in Accounts :
        /\ Asset[id] # {} /\ ~Get(Asset[id]).is_sufficient
        /\ Account[id][w] # {} /\ Get(Account[id][w]).reason = "Sufficient"
        /\ Get(Asset[id]).sufficients = 1
        /\ \E r \in {Dispatch(Storage, self_burn(Storage, w, id, balance(Storage, id, w)))} :
              r.res = "Ok" /\ r.st.Account[id][w] = {}

ApprovalsMatch(s) ==
    \A id \in Ids :
        s.Asset[id] # {} =>
            Get(s.Asset[id]).approvals =
                Cardinality({q \in Accounts \X Accounts : s.Approvals[id][q[1]][q[2]] # {}})

\* C4: in every reachable state, and in the state every successful command
\* leads to, `approvals` of every asset class is the number of its live
\* (owner, delegate) approvals.
C4_ApprovalCounterMatches ==
    /\ ApprovalsMatch(Storage)
    /\ \A c \in Calls :
          \A r \in {Exec(Storage, c)} : r.res = "Ok" => ApprovalsMatch(r.st)

\* An owner with a live approval transfers its whole balance away: its
\* account is reaped, the approval stays and is still counted.
C4_Witness ==
    \E id \in Ids, o \in Accounts, d \in Accounts, t \in Accounts :
        /\ Approvals[id][o][d] # {}
        /\ Account[id][o] # {}
        /\ \E r \in {Dispatch(Storage,
                               transfer(Storage, o, id, t, balance(Storage, id, o)))} :
              /\ r.res = "Ok"
              /\ r.st.Account[id][o] = {}
              /\ r.st.Approvals[id][o][d] # {}
              /\ Get(r.st.Asset[id]).approvals = 1

\* C5: no step lowers or removes a burn certificate.
C5_CertificatesNeverDecrease ==
    [][\A who \in Accounts, id \in Ids :
          BurnCertificate[who][id] # {} =>
              /\ BurnCertificate'[who][id] # {}
              /\ Get(BurnCertificate'[who][id]) >= Get(BurnCertificate[who][id])]_vars

\* A certificate outlives the holder's account and the asset class.
C5_Witness ==
    \E who \in Accounts, id \in Ids :
        /\ BurnCertificate[who][id] # {} /\ Get(BurnCertificate[who][id]) > 0
        /\ Account[id][who] = {}
        /\ Asset[id] = {}

Certificate(s, who, id) ==
    IF s.BurnCertificate[who][id] = {} THEN 0 ELSE Get(s.BurnCertificate[who][id])

\* What C6 says of the result r of a burn of `amount` from `who`.
BurnEffect(r, id, who, amount) ==
    /\ r.res = "Ok" =>
          r.st.BurnCertificate[who][id] =
              {saturating_add(Certificate(Storage, who, id), amount)}
    /\ ( /\ Asset[id] # {} /\ ~Get(Asset[id]).is_frozen
         /\ Account[id][who] # {} /\ ~Get(Account[id][who]).is_frozen
         /\ amount > balance(Storage, id, who) ) =>
          /\ r.res = "BalanceLow"
          /\ r.st.Account[id][who] = Account[id][who]
          /\ r.st.Asset[id] = Asset[id]
          /\ r.st.BurnCertificate[who][id] = BurnCertificate[who][id]

NonIssuerCannotMint ==
    \A o \in Accounts, id \in Ids, n \in Amounts :
        \A r \in {mint(Storage, o, id, n)} :
            (Asset[id] # {} /\ o # Get(Asset[id]).issuer) =>
                /\ r.res = "NoPermission"
                /\ r.st = Storage
                /\ Dispatch(Storage, r).st = Storage

\* An asset class made by create: it holds an asset deposit.
Created(id) == Asset[id] # {} /\ Get(Asset[id]).deposit > 0

\* C7 as stated: a mint by a caller other than the issuer fails with
\* NoPermission and changes nothing, and the owner of a created asset class
\* whose issuer is the custodian can never increase its supply.
C7_OwnerNeverMints ==
    /\ NonIssuerCannotMint
    /\ \A id \in Ids, n \in Amounts :
          (Created(id) /\ Custodian = {Get(Asset[id]).issuer}) =>
              \A r \in {Dispatch(Storage, mint(Storage, Get(Asset[id]).owner, id, n))} :
                  r.res = "Ok" => Get(r.st.Asset[id]).supply = Get(Asset[id]).supply

\* C7, amended: a mint by a caller other than the issuer fails with
\* NoPermission and changes nothing, and the owner of a created asset class can
\* increase its supply only when it is itself the issuer of the class.
C7_OnlyIssuerMints ==
    /\ NonIssuerCannotMint
    /\ \A id \in Ids, n \in Amounts :
          Created(id) =>
              \A r \in {Dispatch(Storage, mint(Storage, Get(Asset[id]).owner, id, n))} :
                  (r.res = "Ok" /\ Get(r.st.Asset[id]).supply > Get(Asset[id]).supply) =>
                      Get(Asset[id]).owner = Get(Asset[id]).issuer

\* The owner of a created asset class is not its issuer (the custodian is):
\* the owner's mint of 0 is refused and the issuer's mint is accepted.
C7_Witness ==
    \E id \in Ids :
        /\ Created(id)
        /\ Get(Asset[id]).owner # Get(Asset[id]).issuer
        /\ Custodian = {Get(Asset[id]).issuer}
        /\ mint(Storage, Get(Asset[id]).owner, id, 0).res = "NoPermission"
        /\ mint(Storage, Get(Asset[id]).issuer, id, 1).res = "Ok"

\* C8 as stated: a burn succeeds only when the caller is the custodian at the
\* time of the burn.
C8_OnlyCustodianBurns ==
    \A o \in Accounts, id \in Ids, who \in Accounts, n \in Amounts :
        \A r \in {Dispatch(Storage, burn(Storage, o, id, who, n))} :
            r.res = "Ok" => Custodian = {o}

\* C9: a successful mint credits the asset's owner at the time of the call:
\* the owner's balance and the supply grow by the amount, and no other balance
\* of any asset class changes.
C9_MintCreditsOwner ==
    \A o \in Accounts, id \in Ids, n \in Amounts :
        \A r \in {Dispatch(Storage, mint(Storage, o, id, n))} :
            r.res = "Ok" =>
                /\ balance(r.st, id, Get(Asset[id]).owner) =
                       balance(Storage, id, Get(Asset[id]).owner) + n
                /\ Get(r.st.Asset[id]).supply = Get(Asset[id]).supply + n
                /\ \A i \in Ids, w \in Accounts :
                       <<i, w>> # <<id, Get(Asset[id]).owner>> =>
                           balance(r.st, i, w) = balance(Storage, i, w)
                /\ \A new \in Accounts :
                       \A t \in {Dispatch(r.st, transfer_ownership(
                                     Settled(r.st), Get(Asset[id]).owner, id, new))} :
                           t.res = "Ok" =>
                               \A m \in {Dispatch(t.st, mint(Settled(t.st), o, id, n))} :
                                   m.res = "Ok" =>
                                       balance(m.st, id, new) = balance(t.st, id, new) + n

\* The owner has handed the class to another account: the issuer's next mint
\* credits the new owner and not the issuer.
C9_Witness ==
    \E id \in Ids, new \in Accounts, n \in Amounts :
        /\ Asset[id] # {} /\ n > 0
        /\ Get(Asset[id]).owner = Get(Asset[id]).issuer
        /\ new # Get(Asset[id]).owner
        /\ \E t \in {Dispatch(Storage, transfer_ownership(
                          Storage, Get(Asset[id]).owner, id, new))} :
              /\ t.res = "Ok"
              /\ \E m \in {Dispatch(t.st, mint(Settled(t.st), Get(Asset[id]).issuer, id, n))} :
                    /\ m.res = "Ok"
                    /\ balance(m.st, id, new) = n
                    /\ balance(m.st, id, Get(Asset[id]).issuer) = 0
        /\ \E r \in {Dispatch(Storage, mint(Storage, Get(Asset[id]).issuer, id, n))} :
              r.res = "Ok" /\ balance(r.st, id, Get(Asset[id]).owner) = n

\* C10: create fails with NoCustodian while the custodian cell is empty; when
\* it succeeds the id was not in the registry, the new entry has the caller as
\* owner, the custodian as issuer, admin and freezer, supply 0, min_balance 1,
\* not sufficient, not frozen, all counters 0, and the caller's reserved
\* balance has grown by the asset deposit plus the metadata deposit.
C10_CreateInstallsCustodianTeam ==
    \A o \in Accounts, n \in Strings, id \in Ids :
        \A r \in {Dispatch(Storage, create(Storage, o, n, Symbol, id))} :
            /\ Custodian = {} => r.res = "NoCustodian"
            /\ r.res = "Ok" =>
                  /\ Asset[id] = {}
                  /\ r.st.Asset[id] =
                        {[owner |-> o, issuer |-> Get(Custodian), admin |-> Get(Custodian),
                          freezer |-> Get(Custodian), supply |-> 0, deposit |-> AssetDeposit,
                          min_balance |-> 1, is_sufficient |-> FALSE, accounts |-> 0,
                          sufficients |-> 0, approvals |-> 0, is_frozen |-> FALSE]}
                  /\ \A i \in Ids \ {id} : r.st.Asset[i] = Asset[i]
                  /\ r.st.reserved[o] =
                        reserved[o] + AssetDeposit + MetadataDepositBase
                        + MetadataDepositPerByte * (Len(n) + Len(Symbol))

\* A caller other than the custodian has created a class next to another
\* class of the registry; a second create under either id is refused.
C10_Witness ==
    \E id \in Ids, other \in Ids :
        /\ Created(id) /\ Asset[other] # {} /\ ~Created(other)
        /\ Get(Asset[id]).owner # Get(Asset[id]).issuer
        /\ Custodian = {Get(Asset[id]).issuer}
        /\ reserved[Get(Asset[id]).owner] = AssetDeposit + Get(Metadata[id]).deposit
        /\ \A i \in Ids :
              create(Storage, Get(Asset[id]).owner, Name, Symbol, i).res = "ErrorCreatingAssetId"

\* Nothing is stored under id: no registry entry, no metadata, no account and
\* no approval.
NoTraces(s, id) ==
    /\ s.Asset[id] = {} /\ s.Metadata[id] = {}
    /\ \A w \in Accounts : s.Account[id][w] = {}
    /\ \A o \in Accounts, d \in Accounts : s.Approvals[id][o][d] = {}

\* C11: after a successful destroy nothing is stored under the id, whatever
\* the number of accounts and approvals the class had.
C11_DestroyLeavesNoTraces ==
    \A o \in Origins, id \in Ids, w \in Witnesses :
        \A r \in {Dispatch(Storage, destroy(Storage, o, id, w))} :
            r.res = "Ok" => NoTraces(r.st, id)

\* A class with metadata, two accounts and an approval is destroyed.
C11_Witness ==
    \E id \in Ids, w \in Witnesses :
        /\ Asset[id] # {} /\ Metadata[id] # {}
        /\ Cardinality({a \in Accounts : Account[id][a] # {}}) >= 2
        /\ \E o \in Accounts, d \in Accounts : Approvals[id][o][d] # {}
        /\ Dispatch(Storage, destroy(Storage, Get(Asset[id]).owner, id, w)).res = "Ok"

\* C12 as stated: after a successful destroy no account keeps native currency
\* reserved on behalf of the destroyed class; where no other class is stored,
\* nothing is reserved any more.
C12_DestroyReleasesAllDeposits ==
    \A o \in Origins, id \in Ids, w \in Witnesses :
        \A r \in {Dispatch(Storage, destroy(Storage, o, id, w))} :
            (r.res = "Ok" /\ \A j \in Ids \ {id} : NoTraces(Storage, j)) =>
                \A a \in Accounts : r.st.reserved[a] = 0

\* The witness is smaller than the asset's value in one of the three counts.
UnderReports(d, w) ==
    w.accounts < d.accounts \/ w.sufficients < d.sufficients \/ w.approvals < d.approvals

\* C13: destroy fails with BadWitness, changing nothing, exactly when the
\* witness is smaller than the asset's value in one of accounts, sufficients,
\* approvals; a witness at least as large in all three is accepted.
C13_BadWitnessIffUnderReported ==
    \A id \in Ids, w \in WitnessTriples :
        Asset[id] # {} =>
            /\ \A o \in Origins :
                  destroy(Storage, o, id, w).res = "BadWitness" =>
                      UnderReports(Get(Asset[id]), w)
            /\ \A o \in {Root, Get(Asset[id]).owner} :
                  \A r \in {destroy(Storage, o, id, w)} :
                      IF UnderReports(Get(Asset[id]), w)
                      THEN r.res = "BadWitness" /\ Dispatch(Storage, r).st = Storage
                      ELSE r.res = "Ok"

\* A class with an account and an approval: a witness short in the approvals
\* alone is refused and a witness larger than every count is accepted.
C13_Witness ==
    \E id \in Ids :
        /\ Asset[id] # {}
        /\ Get(Asset[id]).accounts >= 1 /\ Get(Asset[id]).approvals >= 1
        /\ destroy(Storage, Root, id,
                   DestroyWitness(Get(Asset[id]).accounts, Get(Asset[id]).sufficients, 0)).res
              = "BadWitness"
        /\ destroy(Storage, Root, id, DestroyWitness(3, 2, 2)).res = "Ok"

\* C14 as stated: once destroy(id) has succeeded, no later command makes a
\* registry entry, account, approval or metadata entry exist under id again.
C14_DestroyedIsTerminal ==
    \A o \in Origins, id \in Ids, w \in Witnesses :
        \A d \in {Dispatch(Storage, destroy(Storage, o, id, w))} :
            d.res = "Ok" =>
                \A c \in Calls :
                    NoTraces(Dispatch(Settled(d.st), Exec(Settled(d.st), c)).st, id)

\* Nothing is stored under id in s, and no call other than a create or a
\* force_create for id stores anything under it.
StaysAbsent(s, id) ==
    /\ NoTraces(s, id)
    /\ \A c \in Calls :
          \/ c.op \in {"create", "force_create"} /\ c.id = id
          \/ NoTraces(Dispatch(s, Exec(s, c)).st, id)

\* C14, amended: an id without a registry entry, in particular one whose
\* class has been destroyed, has nothing stored under it, and only a create
\* or a force_create for that id stores anything under it again.
C14_OnlyCreationRevivesId ==
    \A id \in Ids :
        /\ Asset[id] = {} => StaysAbsent(Storage, id)
        /\ \A d \in {Dispatch(Storage, destroy(Storage, Root, id, DestroyWitness(3, 3, 3)))} :
              d.res = "Ok" => StaysAbsent(Settled(d.st), id)

\* A class with an account is destroyed; on the storage left a mint, a touch
\* and a force_set_metadata for the id are refused and a force_create for the
\* id installs a class again.
C14_Witness ==
    \E id \in Ids, w \in Witnesses :
        /\ Asset[id] # {}
        /\ \E a \in Accounts : Account[id][a] # {}
        /\ \E d \in {Dispatch(Storage, destroy(Storage, Root, id, w))} :
              /\ d.res = "Ok"
              /\ mint(Settled(d.st), Get(Asset[id]).issuer, id, 1).res = "Unknown"
              /\ touch(Settled(d.st), 1, id).res = "Unknown"
              /\ force_set_metadata(Settled(d.st), Root, id, Name, Symbol, <<>>, Url, 9,
                                    FALSE).res = "Unknown"
              /\ \E r \in {force_create(Settled(d.st), Root, id, 1, TRUE, 1)} :
                    r.res = "Ok" /\ r.st.Asset[id] # {}

\* C15 as stated: from any state in which approve_transfer by an owner
\* succeeds, a following cancel_approval by the owner succeeds and returns the
\* owner's reserved balance and the `approvals` counter to their values before
\* the approve_transfer.
C15_ApproveThenCancelRestores ==
    \A o \in Accounts, id \in Ids, d \in Accounts, n \in Amounts :
        \A a \in {Dispatch(Storage, approve_transfer(Storage, o, id, d, n))} :
            a.res = "Ok" =>
                \A c \in {Dispatch(a.st, cancel_approval(Settled(a.st), o, id, d))} :
                    /\ c.res = "Ok"
                    /\ c.st.reserved[o] = reserved[o]
                    /\ Get(c.st.Asset[id]).approvals = Get(Asset[id]).approvals

\* C15, amended: the pair restores the reserved balance and the counter (and
\* all of storage) when no approval for the delegate existed before the
\* approve_transfer; when one existed, the cancel also takes the earlier
\* approval with its deposit.
C15_FreshApproveThenCancelRestores ==
    \A o \in Accounts, id \in Ids, d \in Accounts, n \in Amounts :
        \A a \in {Dispatch(Storage, approve_transfer(Storage, o, id, d, n))} :
            a.res = "Ok" =>
                \A c \in {Dispatch(a.st, cancel_approval(Settled(a.st), o, id, d))} :
                    /\ c.res = "Ok"
                    /\ c.st.Approvals[id][o][d] = {}
                    /\ IF Approvals[id][o][d] = {}
                       THEN /\ a.st.reserved[o] = reserved[o] + ApprovalDeposit
                            /\ Get(a.st.Asset[id]).approvals = Get(Asset[id]).approvals + 1
                            /\ c.st.reserved[o] = reserved[o]
                            /\ Get(c.st.Asset[id]).approvals = Get(Asset[id]).approvals
                            /\ Settled(c.st) = Storage
                       ELSE /\ a.st.reserved[o] = reserved[o]
                            /\ c.st.reserved[o] =
                                  reserved[o] - Get(Approvals[id][o][d]).deposit
                            /\ Get(c.st.Asset[id]).approvals = Get(Asset[id]).approvals - 1

\* An owner who already holds a reservation approves a new delegate and
\* cancels: the reserved balance and the counter are back.
C15_Witness ==
    \E o \in Accounts, id \in Ids, d \in Accounts, e \in Accounts :
        /\ Asset[id] # {} /\ Approvals[id][o][d] = {}
        /\ e # d /\ Approvals[id][o][e] # {} /\ reserved[o] > 0
        /\ \E a \in {Dispatch(Storage, approve_transfer(Storage, o, id, d, 2))} :
              /\ a.res = "Ok"
              /\ a.st.reserved[o] = reserved[o] + ApprovalDeposit
              /\ \E c \in {Dispatch(a.st, cancel_approval(Settled(a.st), o, id, d))} :
                    c.res = "Ok" /\ c.st.reserved[o] = reserved[o]

\* C16: from any state in which touch by a caller succeeds, a following
\* refund with allow_burn by the caller succeeds, removes the zero-balance
\* account and returns the caller's reserved balance, the `accounts` counter
\* and the supply to their values before the touch.
C16_TouchThenRefundRestores ==
    \A o \in Accounts, id \in Ids :
        \A t \in {Dispatch(Storage, touch(Storage, o, id))} :
            t.res = "Ok" =>
                /\ t.st.Account[id][o] # {}
                /\ Get(t.st.Account[id][o]).balance = 0
                /\ t.st.reserved[o] = reserved[o] + AssetAccountDeposit
                /\ Get(t.st.Asset[id]).accounts = Get(Asset[id]).accounts + 1
                /\ \A r \in {Dispatch(t.st, refund(Settled(t.st), o, id, TRUE))} :
                      /\ r.res = "Ok"
                      /\ r.st.Account[id][o] = {}
                      /\ r.st.reserved[o] = reserved[o]
                      /\ r.st.free[o] = free[o]
                      /\ Get(r.st.Asset[id]).accounts = Get(Asset[id]).accounts
                      /\ Get(r.st.Asset[id]).supply = Get(Asset[id]).supply
                      /\ Settled(r.st) = Storage

\* A caller who already holds a reservation touches a class that has supply
\* and is refunded.
C16_Witness ==
    \E o \in Accounts, id \in Ids :
        /\ Asset[id] # {} /\ Get(Asset[id]).supply > 0 /\ reserved[o] > 0
        /\ \E t \in {Dispatch(Storage, touch(Storage, o, id))} :
              /\ t.res = "Ok"
              /\ t.st.reserved[o] = reserved[o] + AssetAccountDeposit
              /\ \E r \in {Dispatch(t.st, refund(Settled(t.st), o, id, TRUE))} :
                    r.res = "Ok" /\ r.st.reserved[o] = reserved[o]

\* A transfer of n from who to dest, keeping the source alive or not.
TransferCall(s, keep_alive, who, id, dest, n) ==
    IF keep_alive THEN Dispatch(s, transfer_keep_alive(s, who, id, dest, n))
    ELSE Dispatch(s, transfer(s, who, id, dest, n))

\* Between freeze and thaw of who's account, and between freeze_asset and
\* thaw_asset, the transfer is refused with Frozen; after the thaw the storage
\* is what it was before the freeze, so the transfer has its effect of before.
FreezeThawRestores(id, who, dest, n, keep_alive) ==
    /\ \A f \in {Dispatch(Storage, freeze(Storage, Get(Asset[id]).freezer, id, who))} :
          f.res = "Ok" =>
              /\ TransferCall(Settled(f.st), keep_alive, who, id, dest, n).res = "Frozen"
              /\ \A t \in {Dispatch(f.st, thaw(Settled(f.st), Get(Asset[id]).admin, id, who))} :
                    /\ t.res = "Ok"
                    /\ Settled(t.st) = Storage
                    /\ TransferCall(Settled(t.st), keep_alive, who, id, dest, n)
                          = TransferCall(Storage, keep_alive, who, id, dest, n)
    /\ \A f \in {Dispatch(Storage, freeze_asset(Storage, Get(Asset[id]).freezer, id))} :
          f.res = "Ok" =>
              /\ TransferCall(Settled(f.st), keep_alive, who, id, dest, n).res = "Frozen"
              /\ \A t \in {Dispatch(f.st, thaw_asset(Settled(f.st), Get(Asset[id]).admin, id))} :
                    /\ t.res = "Ok"
                    /\ Settled(t.st) = Storage
                    /\ TransferCall(Settled(t.st), keep_alive, who, id, dest, n)
                          = TransferCall(Storage, keep_alive, who, id, dest, n)

WouldReap(s, id, source, n) ==
    /\ s.Asset[id] # {} /\ s.Account[id][source] # {}
    /\ n > 0 /\ n <= balance(s, id, source)
    /\ balance(s, id, source) - n < Get(s.Asset[id]).min_balance

\* The transfers without keep_alive that move n from source to dest: transfer
\* by the source, force_transfer by the admin, transfer_approved by a delegate.
ReapingTransfers(s, id, source, dest, n) ==
    {transfer(s, source, id, dest, n),
     force_transfer(s, Get(s.Asset[id]).admin, id, source, dest, n)}
    \cup {transfer_approved(s, d, id, source, dest, n) : d \in Accounts}

\* The `died` hooks fired by a command.
Died(s) == {<<s.died[i][1], s.died[i][2]>> : i \in 1 .. Len(s.died)}

\* What the claim says of a successful transfer that reaps: the source
\* account is gone, dest holds the source's whole balance more, the supply is
\* kept, `accounts` has lost the source and `died` fired for the source.
SourceReaped(s, t, id, source, dest) ==
    /\ t.Account[id][source] = {}
    /\ balance(t, id, dest) = balance(s, id, dest) + balance(s, id, source)
    /\ Get(t.Asset[id]).supply = Get(s.Asset[id]).supply
    /\ Get(t.Asset[id]).accounts =
          Get(s.Asset[id]).accounts - 1 + (IF s.Account[id][dest] = {} THEN 1 ELSE 0)
    /\ <<id, source>> \in Died(t)

\* With keep_alive the transfer fails, the source account stays and no `died`
\* hook fires.
KeepAliveRefuses(id, source, dest, n) ==
    \A r \in {transfer_keep_alive(Storage, source, id, dest, n)} :
        /\ r.res # "Ok"
        /\ r.st.Account[id][source] = Account[id][source]
        /\ Died(r.st) = {}
        /\ Dispatch(Storage, r).st = Storage

\* C18 as stated: a transfer to another account whose debit would leave the
\* source below min_balance fails with keep_alive, and without keep_alive it
\* removes the source account, credits the source's whole balance to the
\* destination, keeps the supply, decrements `accounts` and fires `died` for
\* the source.
C18_ReapIffNotKeepAlive ==
    \A id \in Ids, source \in Accounts, dest \in Accounts, n \in Amounts :
        (source # dest /\ WouldReap(Storage, id, source, n)) =>
            /\ KeepAliveRefuses(id, source, dest, n)
            /\ \A r \in ReapingTransfers(Storage, id, source, dest, n) :
                  r.res = "Ok" => SourceReaped(Storage, r.st, id, source, dest)

\* C18, amended: the same where the destination is another account and the
\* source account holds no deposit; a DepositHeld source account is emptied
\* and stays, without `died`; a transfer to the source itself changes no
\* balance. The transfer by the source succeeds when nothing is frozen and the
\* destination has an account with room for the credit.
C18_ReapUnlessDepositHeld ==
    \A id \in Ids, source \in Accounts, dest \in Accounts, n \in Amounts :
        WouldReap(Storage, id, source, n) =>
            /\ KeepAliveRefuses(id, source, dest, n)
            /\ \A r \in ReapingTransfers(Storage, id, source, dest, n) :
                  r.res = "Ok" =>
                      IF source = dest
                      THEN /\ r.st.Account[id][source] = Account[id][source]
                           /\ Get(r.st.Asset[id]).supply = Get(Asset[id]).supply
                           /\ Died(r.st) = {}
                      ELSE IF Get(Account[id][source]).reason = "DepositHeld"
                      THEN /\ r.st.Account[id][source] # {}
                           /\ balance(r.st, id, source) = 0
                           /\ balance(r.st, id, dest) =
                                 balance(Storage, id, dest) + balance(Storage, id, source)
                           /\ Get(r.st.Asset[id]).supply = Get(Asset[id]).supply
                           /\ Died(r.st) = {}
                      ELSE SourceReaped(Storage, r.st, id, source, dest)
            /\ ( /\ source # dest /\ Account[id][dest] # {}
                 /\ ~Get(Asset[id]).is_frozen /\ ~Get(Account[id][source]).is_frozen
                 /\ balance(Storage, id, dest) + balance(Storage, id, source) <= MaxBalance )
               => transfer(Storage, source, id, dest, n).res = "Ok"

\* A holder of more than min_balance - 1 sends an amount that leaves exactly
\* min_balance - 1: refused with keep_alive, and without it the account is
\* reaped and the destination receives the amount and the dust.
C18_Witness ==
    \E id \in Ids, source \in Accounts, dest \in Accounts, n \in Amounts :
        /\ WouldReap(Storage, id, source, n) /\ source # dest
        /\ balance(Storage, id, source) - n = Get(Asset[id]).min_balance - 1
        /\ balance(Storage, id, source) > n
        /\ transfer_keep_alive(Storage, source, id, dest, n).res = "BalanceLow"
        /\ \E r \in {transfer(Storage, source, id, dest, n)} :
              /\ r.res = "Ok"
              /\ SourceReaped(Storage, r.st, id, source, dest)
              /\ balance(r.st, id, dest) > balance(Storage, id, dest) + n

\* source can pay n: nothing is frozen and its balance covers n.
CanPay(s, id, source, n) ==
    /\ s.Asset[id] # {} /\ ~Get(s.Asset[id]).is_frozen
    /\ s.Account[id][source] # {} /\ ~Get(s.Account[id][source]).is_frozen
    /\ n <= balance(s, id, source)

\* What a transfer of n without keep_alive credits: the whole balance when
\* less than min_balance would remain.
Credited(s, id, source, n) ==
    IF balance(s, id, source) - n < Get(s.Asset[id]).min_balance
    THEN balance(s, id, source) ELSE n

\* The transfers without keep_alive that are allowed to move n from source to
\* dest: by the source, by the admin, by a delegate whose approval covers n.
AllowedTransfers(s, id, source, dest, n) ==
    {transfer(s, source, id, dest, n),
     force_transfer(s, Get(s.Asset[id]).admin, id, source, dest, n)}
    \cup {transfer_approved(s, d, id, source, dest, n) :
            d \in {x \in Accounts : /\ s.Approvals[id][source][x] # {}
                                    /\ Get(s.Approvals[id][source][x]).amount >= n}}

\* The outcome of a credit r of `credit` to dest, which has no account.
NewAccountVerdict(r, id, dest, credit) ==
    /\ credit < Get(Asset[id]).min_balance
          => r.res = "BelowMinimum" /\ Dispatch(Storage, r).st = Storage
    /\ ( /\ credit >= Get(Asset[id]).min_balance
         /\ ~Get(Asset[id]).is_sufficient /\ ~can_inc_consumer(Storage, dest) )
          => r.res = "CannotCreate" /\ Dispatch(Storage, r).st = Storage
    /\ r.res = "Ok"
          => /\ r.st.Account[id][dest] # {}
             /\ balance(r.st, id, dest) = credit
             /\ credit >= Get(Asset[id]).min_balance

\* The verdicts of the credits of an amount in amts to an absent account.
NewAccountVerdicts(amts) ==
    \A id \in Ids, dest \in Accounts :
        (Asset[id] # {} /\ Account[id][dest] = {}) =>
            /\ \A n \in amts :
                  ( /\ dest = Get(Asset[id]).owner /\ ~Get(Asset[id]).is_frozen
                    /\ Get(Asset[id]).supply + n <= MaxBalance )
                  => NewAccountVerdict(mint(Storage, Get(Asset[id]).issuer, id, n), id, dest, n)
            /\ \A source \in Accounts \ {dest}, n \in amts :
                  CanPay(Storage, id, source, n) =>
                      /\ \A r \in AllowedTransfers(Storage, id, source, dest, n) :
                            NewAccountVerdict(r, id, dest, Credited(Storage, id, source, n))
                      /\ \A r \in {transfer_keep_alive(Storage, source, id, dest, n)} :
                            r.res = "Ok" =>
                                /\ r.st.Account[id][dest] # {}
                                /\ balance(r.st, id, dest) = n
                                /\ n >= Get(Asset[id]).min_balance

Covers(s, id, owner, delegate, n) ==
    /\ s.Approvals[id][owner][delegate] # {}
    /\ Get(s.Approvals[id][owner][delegate]).amount >= n

\* A refused transfer_approved r wrote nothing: balances, approvals and
\* reserved deposits are as before.
RefusedUnchanged(r) ==
    /\ r.st.Account = Account
    /\ r.st.Asset = Asset
    /\ r.st.Approvals = Approvals
    /\ r.st.reserved = reserved
    /\ Dispatch(Storage, r).st = Storage

\* C20: transfer_approved by a delegate fails with Unapproved when there is
\* no approval (id, owner, delegate) or its amount is smaller than the amount
\* asked, and with BalanceLow when the approval covers the amount and the
\* balance of the owner's account (the class and the account not frozen) does
\* not; in both cases balances, approvals and reserved deposits are unchanged.
C20_TransferApprovedRefusals ==
    \A id \in Ids, owner \in Accounts, delegate \in Accounts,
       destination \in Accounts, n \in Amounts :
        \A r \in {transfer_approved(Storage, delegate, id, owner, destination, n)} :
            /\ ~Covers(Storage, id, owner, delegate, n)
                  => r.res = "Unapproved" /\ RefusedUnchanged(r)
            /\ ( /\ Covers(Storage, id, owner, delegate, n)
                 /\ ~Get(Asset[id]).is_frozen
                 /\ Account[id][owner] # {}
                 /\ ~Get(Account[id][owner]).is_frozen
                 /\ balance(Storage, id, owner) < n )
                  => r.res = "BalanceLow" /\ RefusedUnchanged(r)

\* An owner has approved more than the supply; the delegate is refused that
\* amount with BalanceLow, more than approved with Unapproved, and the owner's
\* deposit for the approval stays reserved.
C20_Witness ==
    \E id \in Ids, owner \in Accounts, delegate \in Accounts, destination \in Accounts :
        /\ Approvals[id][owner][delegate] # {}
        /\ Account[id][owner] # {}
        /\ \E a \in {Get(Approvals[id][owner][delegate]).amount} :
              /\ a > Get(Asset[id]).supply
              /\ a < MaxBalance
              /\ transfer_approved(Storage, delegate, id, owner, destination, a).res
                    = "BalanceLow"
              /\ transfer_approved(Storage, delegate, id, owner, destination, a + 1).res
                    = "Unapproved"
        /\ reserved[owner] >= ApprovalDeposit

ApproveEffect(a, id, owner, delegate, n) ==
    IF Approvals[id][owner][delegate] = {}
    THEN /\ a.st.Approvals[id][owner][delegate] = {Approval(n, ApprovalDeposit)}
         /\ a.st.reserved[owner] = reserved[owner] + ApprovalDeposit
         /\ a.st.free[owner] = free[owner] - ApprovalDeposit
         /\ Get(a.st.Asset[id]).approvals = Get(Asset[id]).approvals + 1
    ELSE /\ \A old \in Approvals[id][owner][delegate] :
               a.st.Approvals[id][owner][delegate] =
                   {Approval(Min(old.amount + n, MaxBalance), old.deposit)}
         /\ a.st.reserved[owner] = reserved[owner]
         /\ a.st.free[owner] = free[owner]
         /\ Get(a.st.Asset[id]).approvals = Get(Asset[id]).approvals

\* The live approvals given by owner, as <<id, delegate>>.
LiveApprovals(s, owner) ==
    {p \in Ids \X Accounts : s.Approvals[p[1]][owner][p[2]] # {}}

\* Every owner has one ApprovalDeposit reserved for each live approval.
ApprovalsBacked(s) ==
    \A owner \in Accounts :
        s.reserved[owner] >= ApprovalDeposit * Cardinality(LiveApprovals(s, owner))

\* C22: approve_transfer on a pair without a live approval reserves exactly
\* ApprovalDeposit from the owner, stores the amount with that deposit and
\* increments `approvals`; on a pair with a live approval it adds the amount,
\* saturating, reserves nothing and leaves `approvals` as it is; hence every
\* live approval is backed by one ApprovalDeposit reserved from its owner, now
\* and when a transfer of ownership follows the approval.
C22_ApprovalsBackedByDeposit ==
    /\ ApprovalsBacked(Storage)
    /\ \A id \in Ids, owner \in Accounts, delegate \in Accounts, n \in Amounts :
          \A a \in {Dispatch(Storage, approve_transfer(Storage, owner, id, delegate, n))} :
              a.res = "Ok" =>
                  /\ ApproveEffect(a, id, owner, delegate, n)
                  /\ \A o \in Accounts, i \in Ids, new \in Accounts :
                        ApprovalsBacked(Dispatch(Settled(a.st),
                                                 transfer_ownership(Settled(a.st), o, i, new)).st)

\* The command with result r, run in storage s, was refused with Frozen and
\* wrote nothing.
RefusedFrozen(s, r) == r.res = "Frozen" /\ r.st = s /\ Dispatch(s, r).st = s

\* The transfers that debit who: by who, keeping it alive or not, and by a
\* delegate whose approval covers n.
DebitingTransfers(s, id, who, dest, n) ==
    {transfer(s, who, id, dest, n), transfer_keep_alive(s, who, id, dest, n)}
    \cup {transfer_approved(s, d, id, who, dest, n) :
            d \in {x \in Accounts : Covers(s, id, who, x, n)}}

\* In storage s, for the amounts amts: a frozen class refuses transfers,
\* approvals and self-burns, a frozen account refuses the transfers that
\* debit it.
FrozenRefuses(s, amts) ==
    \A id \in Ids, who \in Accounts, dest \in Accounts, n \in amts :
        s.Asset[id] # {} =>
            /\ Get(s.Asset[id]).is_frozen =>
                  /\ \A r \in DebitingTransfers(s, id, who, dest, n) : RefusedFrozen(s, r)
                  /\ RefusedFrozen(s, approve_transfer(s, who, id, dest, n))
                  /\ RefusedFrozen(s, self_burn(s, who, id, n))
            /\ (s.Account[id][who] # {} /\ Get(s.Account[id][who]).is_frozen) =>
                  \A r \in DebitingTransfers(s, id, who, dest, n) : RefusedFrozen(s, r)

C24_ForceTransferActsOnFrozen ==
    \A id \in Ids, source \in Accounts, dest \in Accounts, n \in Amounts \ {0} :
        ( /\ Asset[id] # {}
          /\ force_transfer(Storage, Get(Asset[id]).admin, id, source, dest, n).res = "Ok" )
        => /\ \A f \in {Dispatch(Storage, freeze_asset(Storage, Get(Asset[id]).freezer, id))} :
                 f.res = "Ok" =>
                     force_transfer(Settled(f.st), Get(Asset[id]).admin,
                                    id, source, dest, n).res = "Ok"
           /\ \A f \in {Dispatch(Storage, freeze(Storage, Get(Asset[id]).freezer, id, source))} :
                 f.res = "Ok" =>
                     force_transfer(Settled(f.st), Get(Asset[id]).admin,
                                    id, source, dest, n).res = "Ok"

\* The strings tried as url and data_ipfs: two that fit and one too long.
ProjectStrings == {Url, Name, TooLong}

OwnerDeposits(s, id) ==
    Get(s.Asset[id]).deposit + (IF s.Metadata[id] = {} THEN 0 ELSE Get(s.Metadata[id]).deposit)

\* C26: a successful transfer_ownership to another account sets the owner,
\* lowers the old owner's reserved balance by the asset deposit plus the
\* metadata deposit and raises the new owner's by the same amount, leaving
\* every other field of the class as it is; to the current owner it succeeds,
\* changes nothing and emits no event; a caller that is not the owner gets
\* NoPermission.
C26_TransferOwnershipMovesDeposits ==
    \A o \in Accounts, id \in Ids, new \in Accounts :
        Asset[id] # {} =>
            \A r \in {transfer_ownership(Storage, o, id, new)}, old \in {Get(Asset[id]).owner} :
                /\ o # old => r.res = "NoPermission" /\ Dispatch(Storage, r).st = Storage
                /\ (o = old /\ new = old) => r.res = "Ok" /\ r.st = Storage
                /\ (r.res = "Ok" /\ new # old) =>
                      /\ r.st.Asset[id] = {[Get(Asset[id]) EXCEPT !.owner = new]}
                      /\ r.st.reserved[old] = reserved[old] - OwnerDeposits(Storage, id)
                      /\ r.st.reserved[new] = reserved[new] + OwnerDeposits(Storage, id)
                      /\ r.st.free = free

\* Every holder of a DepositHeld account has at least the account's deposit
\* reserved.
DepositHeldBacked(s) ==
    \A id \in Ids, who \in Accounts :
        (s.Account[id][who] # {} /\ Get(s.Account[id][who]).reason = "DepositHeld")
            => s.reserved[who] >= Get(s.Account[id][who]).deposit

\* C27: for every account whose reason is DepositHeld(d) the holder has at
\* least d reserved: the deposit is reserved when touch creates the account
\* and stays reserved while the account exists, also when a transfer of
\* ownership follows the touch.
C27_DepositHeldIsReserved ==
    /\ DepositHeldBacked(Storage)
    /\ \A id \in Ids, who \in Accounts :
          \A t \in {Dispatch(Storage, touch(Storage, who, id))} :
              t.res = "Ok" =>
                  /\ DepositHeldBacked(t.st)
                  /\ \A o \in Accounts, i \in Ids, new \in Accounts :
                        DepositHeldBacked(Dispatch(Settled(t.st),
                                                   transfer_ownership(Settled(t.st), o, i, new)).st)

\* who has an account of class id that holds less than min_balance.
BelowMinimum(s, id, who) ==
    /\ s.Asset[id] # {} /\ s.Account[id][who] # {}
    /\ balance(s, id, who) < Get(s.Asset[id]).min_balance

\* C28 as stated: between commands every existing account of every asset
\* class has balance >= the class's min_balance, accounts made by touch and
\* accounts that existed when force_asset_status raised min_balance included.
C28_AccountsHoldMinimum ==
    \A id \in Ids, who \in Accounts : ~BelowMinimum(Storage, id, who)

\* C28, amended: an account that holds less than min_balance after a command
\* is a DepositHeld account (made by touch), or the command was a
\* force_asset_status on its class, or it held less than min_balance before
\* the command; no other command leaves a new account, or an account that
\* held min_balance, with less.
C28_BelowMinimumOnlyByTouchOrStatus ==
    \A c \in Calls :
        \A r \in {Dispatch(Storage, Exec(Storage, c))} :
            \A id \in Ids, who \in Accounts :
                BelowMinimum(r.st, id, who) =>
                    \/ Get(r.st.Account[id][who]).reason = "DepositHeld"
                    \/ c.op = "force_asset_status" /\ c.id = id
                    \/ BelowMinimum(Storage, id, who)

\* An account that is not DepositHeld holds less than the min_balance that a
\* force_asset_status has set, and a touch would create another account of
\* the class with balance 0.
C28_Witness ==
    \E id \in Ids, who \in Accounts, other \in Accounts :
        /\ BelowMinimum(Storage, id, who)
        /\ Get(Account[id][who]).reason # "DepositHeld"
        /\ balance(Storage, id, who) > 0
        /\ \E t \in {Dispatch(Storage, touch(Storage, other, id))} :
              /\ t.res = "Ok"
              /\ BelowMinimum(t.st, id, other)
              /\ balance(t.st, id, other) = 0

\* C29: every asset class in the registry has min_balance > 0: create
\* installs 1, force_create rejects 0 with MinBalanceZero, and no command,
\* force_asset_status in particular, sets it to 0.
C29_MinBalancePositive ==
    /\ \A id \in Ids : Asset[id] # {} => Get(Asset[id]).min_balance > 0
    /\ \A id \in Ids, o \in Accounts, n \in Strings :
          \A r \in {create(Storage, o, n, Symbol, id)} :
              r.res = "Ok" => Get(r.st.Asset[id]).min_balance = 1
    /\ \A id \in Ids, owner \in Accounts, suff \in BOOLEAN :
          Asset[id] = {} => force_create(Storage, Root, id, owner, suff, 0).res = "MinBalanceZero"
    /\ \A id \in Ids, st \in StatusInputs :
          \A r \in {Dispatch(Storage, force_asset_status(Storage, Root, id, st))} :
              r.st.Asset[id] # {} => Get(r.st.Asset[id]).min_balance > 0

\* The force_asset_status inputs tried for a raise of min_balance: every
\* min_balance up to MaxBalance, with the class sufficient or not, frozen or
\* not, and account 1 in every role.
RaisingInputs ==
    {<<1, 1, 1, 1, m, suff, frozen>> :
        m \in 1 .. MaxBalance, suff \in BOOLEAN, frozen \in BOOLEAN}

\* force_asset_status with input st raises min_balance above the balance of
\* who's account.
RaisedAbove(id, st, who) ==
    /\ Asset[id] # {} /\ Account[id][who] # {}
    /\ balance(Storage, id, who) < st[5]
    /\ Get(Asset[id]).min_balance <= balance(Storage, id, who)

\* C30 as stated: after force_asset_status raises min_balance above the
\* balance of an existing account, the account is still there and every
\* outbound transfer from it fails.
C30_RaisedMinimumBlocksTransfers ==
    \A id \in Ids, st \in RaisingInputs, who \in Accounts :
        RaisedAbove(id, st, who) =>
            \A f \in {Dispatch(Storage, force_asset_status(Storage, Root, id, st))} :
                /\ f.res = "Ok"
                /\ f.st.Account[id][who] = Account[id][who]
                /\ \A dest \in Accounts, n \in Amounts \ {0} :
                      /\ transfer(Settled(f.st), who, id, dest, n).res # "Ok"
                      /\ transfer_keep_alive(Settled(f.st), who, id, dest, n).res # "Ok"

\* C30, amended: after force_asset_status raises min_balance above the
\* balance of an existing account, the account is still there with its
\* balance; a transfer_keep_alive from it fails; a transfer from it to another
\* account that succeeds moves its whole balance and, unless the account is
\* DepositHeld, removes it; and it succeeds when nothing is frozen, the
\* balance covers the amount and the destination has an account with room.
C30_RaisedMinimumDrainsOnTransfer ==
    \A id \in Ids, st \in RaisingInputs, who \in Accounts :
        RaisedAbove(id, st, who) =>
            \A f \in {Dispatch(Storage, force_asset_status(Storage, Root, id, st))} :
                /\ f.res = "Ok"
                /\ f.st.Account[id][who] = Account[id][who]
                /\ \A dest \in Accounts \ {who}, n \in Amounts \ {0} :
                      /\ transfer_keep_alive(Settled(f.st), who, id, dest, n).res # "Ok"
                      /\ \A r \in {transfer(Settled(f.st), who, id, dest, n)} :
                            /\ r.res = "Ok" =>
                                  /\ balance(r.st, id, who) = 0
                                  /\ balance(r.st, id, dest) =
                                        balance(Storage, id, dest) + balance(Storage, id, who)
                                  /\ Get(Account[id][who]).reason # "DepositHeld"
                                        => r.st.Account[id][who] = {}
                            /\ ( /\ ~st[7] /\ ~Get(Account[id][who]).is_frozen
                                 /\ n <= balance(Storage, id, who)
                                 /\ Account[id][dest] # {}
                                 /\ balance(Storage, id, dest) + balance(Storage, id, who)
                                       <= MaxBalance )
                               => r.res = "Ok"

\* min_balance is raised above what an account holds: the account stays, its
\* transfer_keep_alive is refused with BalanceLow, and its transfer of a part
\* of its balance to another holder succeeds, moves all of it and removes the
\* account.
C30_Witness ==
    \E id \in Ids, st \in RaisingInputs, who \in Accounts, dest \in Accounts :
        /\ RaisedAbove(id, st, who) /\ who # dest
        /\ balance(Storage, id, who) > 1
        /\ \E f \in {Dispatch(Storage, force_asset_status(Storage, Root, id, st))} :
              /\ f.res = "Ok"
              /\ f.st.Account[id][who] # {}
              /\ transfer_keep_alive(Settled(f.st), who, id, dest, 1).res = "BalanceLow"
              /\ \E r \in {transfer(Settled(f.st), who, id, dest, 1)} :
                    /\ r.res = "Ok"
                    /\ r.st.Account[id][who] = {}
                    /\ balance(r.st, id, dest) = balance(Storage, id, dest)
                                                    + balance(Storage, id, who)


\* The accounts of `who`, over every asset class, whose reason is `reason`.
AccountsWithReason(s, who, reason) ==
    {id \in Ids : s.Account[id][who] # {} /\ Get(s.Account[id][who]).reason = reason}

ReferencesPaired(s) ==
    \A who \in Accounts :
        /\ s.consumers[who] = Cardinality(AccountsWithReason(s, who, "Consumer"))
        /\ s.sufficients[who] = Cardinality(AccountsWithReason(s, who, "Sufficient"))

\* C31: in every reachable state, and in the state every successful command
\* leads to, the consumer references held on an account are as many as its
\* asset accounts with reason Consumer and the sufficient references as many
\* as its asset accounts with reason Sufficient; an account with reason
\* DepositHeld holds no reference.
C31_ReferencesPairedWithAccounts ==
    /\ ReferencesPaired(Storage)
    /\ \A c \in Calls :
          \A r \in {Dispatch(Storage, Exec(Storage, c))} :
              r.res = "Ok" => ReferencesPaired(r.st)

\* A holder's account with reason Consumer is reaped by a command and its one
\* consumer reference goes with it; a touch by another holder makes an account
\* with reason DepositHeld and takes no reference.
C31_Witness ==
    \E who \in Accounts, id \in Ids :
        /\ Account[id][who] # {} /\ Get(Account[id][who]).reason = "Consumer"
        /\ consumers[who] = 1
        /\ \E c \in Calls :
              \E r \in {Dispatch(Storage, Exec(Storage, c))} :
                  r.res = "Ok" /\ r.st.Account[id][who] = {} /\ r.st.consumers[who] = 0
        /\ \E other \in Accounts :
              \E r \in {Dispatch(Storage, touch(Storage, other, id))} :
                  /\ r.res = "Ok"
                  /\ Get(r.st.Account[id][other]).reason = "DepositHeld"
                  /\ r.st.consumers[other] = consumers[other]


RoleGated ==
    {"freeze", "freeze_asset", "thaw", "thaw_asset", "force_transfer",
     "transfer_ownership", "destroy"}

\* The account a role-gated command compares its caller with.
RoleHolder(d, op) ==
    IF op \in {"freeze", "freeze_asset"} THEN d.freezer
    ELSE IF op \in {"thaw", "thaw_asset", "force_transfer"} THEN d.admin
    ELSE d.owner

\* The role-gated calls on existing classes whose signed caller does not hold
\* the role.
Outsiders(s) ==
    {c \in Calls : /\ c.op \in RoleGated
                   /\ c.origin # Root
                   /\ s.Asset[c.id] # {}
                   /\ c.origin # RoleHolder(Get(s.Asset[c.id]), c.op)}

\* The storage force_asset_status leaves, or s itself when it fails.
AfterStatus(s, id, st) == Settled(Dispatch(s, force_asset_status(s, Root, id, st)).st)

\* Every outsider call on s fails with NoPermission and changes nothing.
OutsidersGetNoPermission(s) ==
    \A c \in Outsiders(s) :
        \A r \in {Dispatch(s, Exec(s, c))} : r.res = "NoPermission" /\ r.st = s

AsRoleHolder(s, c) == [c EXCEPT !.origin = RoleHolder(Get(s.Asset[c.id]), c.op)]

\* An outsider call changes nothing; it fails with NoPermission, except that
\* a force_transfer fails with the error of the checks that come before the
\* admin check and returns Ok for amount 0.
OutsidersChangeNothing(s) ==
    \A c \in Outsiders(s) :
        \A r \in {Dispatch(s, Exec(s, c))} :
            /\ Settled(r.st) = s
            /\ c.op # "force_transfer" => r.res = "NoPermission" /\ r.st = s
            /\ c.op = "force_transfer" =>
                  /\ c.amount = 0 => r.res = "Ok"
                  /\ c.amount > 0 =>
                        /\ r.res # "Ok"
                        /\ r.st = s
                        /\ Exec(s, AsRoleHolder(s, c)).res = "Ok" => r.res = "NoPermission"
                        /\ Exec(s, AsRoleHolder(s, c)).res # "Ok" =>
                              r.res = Exec(s, AsRoleHolder(s, c)).res

HookCalls(s, id, who) ==
    Cardinality({i \in 1 .. Len(s.died) : s.died[i][1] = id /\ s.died[i][2] = who})

\* The hook calls of a command that took storage s to t: one for each account
\* of s that t no longer has and none for any other, each reading balance 0.
HookMatchesRemovals(s, t) ==
    /\ \A id \in Ids, who \in Accounts :
          HookCalls(t, id, who) =
              IF s.Account[id][who] # {} /\ t.Account[id][who] = {} THEN 1 ELSE 0
    /\ \A i \in 1 .. Len(t.died) : t.died[i][3] = 0

\* C33: a successful command calls the `died` hook exactly once for each
\* asset account it removes and never for an account that exists when the
\* command returns, and the hook reads balance 0 for the dying account; a
\* command that fails has not called the hook.
C33_DiedOncePerRemovedAccount ==
    \A c \in Calls :
        \A r \in {Exec(Storage, c)} :
            /\ r.res = "Ok" => HookMatchesRemovals(Storage, r.st)
            /\ r.res # "Ok" => r.st.died = <<>>

\* A state in which a transfer, a force_transfer, a burn, a self_burn, a
\* refund and a destroy can each remove an account and call the hook.
C33_Witness ==
    /\ \A op \in {"transfer", "force_transfer", "burn", "self_burn", "refund", "destroy"} :
          \E c \in Calls :
              \E r \in {Exec(Storage, c)} :
                  c.op = op /\ r.res = "Ok" /\ Len(r.st.died) >= 1


DepositHeldAccounts(s) ==
    {q \in Ids \X Accounts : /\ s.Account[q[1]][q[2]] # {}
                             /\ Get(s.Account[q[1]][q[2]]).reason = "DepositHeld"}

\* The calls that debit the whole balance b of (id, who) to somewhere else.
WholeDebits(id, who, b) ==
    {c \in Calls :
        \/ c.op = "transfer" /\ c.id = id /\ c.origin = who /\ c.a # who /\ c.amount = b
        \/ c.op = "force_transfer" /\ c.id = id /\ c.a = who /\ c.b # who /\ c.amount = b
        \/ c.op = "transfer_approved" /\ c.id = id /\ c.a = who /\ c.b # who /\ c.amount = b
        \/ c.op = "burn" /\ c.id = id /\ c.a = who /\ c.amount = b
        \/ c.op = "self_burn" /\ c.id = id /\ c.origin = who /\ c.amount = b}

\* What a whole debit leaves of the account: the account itself with balance
\* 0 and its reservation; a transfer_approved that uses its approval up
\* releases the approval's deposit and nothing else.
KeptEmpty(s, t, c, id, who) ==
    /\ t.Account[id][who] = {[Get(s.Account[id][who]) EXCEPT !.balance = 0]}
    /\ t.reserved[who] =
          IF c.op = "transfer_approved" /\ t.Approvals[id][who][c.origin] = {}
          THEN s.reserved[who]
                  - Min(s.reserved[who], Get(s.Approvals[id][who][c.origin]).deposit)
          ELSE s.reserved[who]

\* 1 when the call has made an account for its destination, else 0.
DestinationCreated(s, t, c) ==
    IF c.op \in {"transfer", "force_transfer", "transfer_approved"}
    THEN Cardinality({w \in Accounts : s.Account[c.id][w] = {} /\ t.Account[c.id][w] # {}})
    ELSE 0

\* Only refund by the holder or destroy of the class removes an account with
\* reason DepositHeld.
OnlyRefundOrDestroyRemoves(s) ==
    \A q \in DepositHeldAccounts(s), c \in Calls :
        \A r \in {Dispatch(s, Exec(s, c))} :
            (r.res = "Ok" /\ r.st.Account[q[1]][q[2]] = {}) =>
                \/ c.op = "refund" /\ c.id = q[1] /\ c.origin = q[2]
                \/ c.op = "destroy" /\ c.id = q[1]

\* C35 as stated: a successful debit of the whole balance of an account with
\* reason DepositHeld keeps the account with balance 0 and its reservation and
\* leaves `accounts` of the class as it was; only refund or destroy removes it.
C35_DepositHeldSurvivesDebit ==
    /\ OnlyRefundOrDestroyRemoves(Storage)
    /\ \A q \in DepositHeldAccounts(Storage) :
          \A c \in WholeDebits(q[1], q[2], balance(Storage, q[1], q[2])) :
              \A r \in {Dispatch(Storage, Exec(Storage, c))} :
                  (r.res = "Ok" /\ c.amount > 0) =>
                      /\ KeptEmpty(Storage, r.st, c, q[1], q[2])
                      /\ Get(r.st.Asset[q[1]]).accounts = Get(Asset[q[1]]).accounts

\* C35, amended: a successful debit of the whole balance of an account with
\* reason DepositHeld keeps the account with balance 0 and its reservation and
\* does not take it off `accounts`, which stays as it was after a burn and
\* rises by one when a transfer makes the destination's account; only refund
\* or destroy removes the account.
C35_DepositHeldStaysCounted ==
    /\ OnlyRefundOrDestroyRemoves(Storage)
    /\ \A q \in DepositHeldAccounts(Storage) :
          \A c \in WholeDebits(q[1], q[2], balance(Storage, q[1], q[2])) :
              \A r \in {Dispatch(Storage, Exec(Storage, c))} :
                  (r.res = "Ok" /\ c.amount > 0) =>
                      /\ KeptEmpty(Storage, r.st, c, q[1], q[2])
                      /\ Get(r.st.Asset[q[1]]).accounts =
                            Get(Asset[q[1]]).accounts + DestinationCreated(Storage, r.st, c)
                      /\ c.op \in {"burn", "self_burn"} =>
                            Get(r.st.Asset[q[1]]).accounts = Get(Asset[q[1]]).accounts

\* An account with reason DepositHeld holds a balance; a transfer empties it
\* into a new account and a burn empties it, the account staying both times,
\* and its holder's refund removes it.
C35_Witness ==
    \E q \in DepositHeldAccounts(Storage) :
        /\ balance(Storage, q[1], q[2]) > 0
        /\ \E c \in WholeDebits(q[1], q[2], balance(Storage, q[1], q[2])) :
              \E r \in {Dispatch(Storage, Exec(Storage, c))} :
                  /\ c.op = "transfer" /\ r.res = "Ok"
                  /\ Account[q[1]][c.a] = {} /\ r.st.Account[q[1]][c.a] # {}
                  /\ balance(r.st, q[1], q[2]) = 0 /\ r.st.Account[q[1]][q[2]] # {}
        /\ \E c \in WholeDebits(q[1], q[2], balance(Storage, q[1], q[2])) :
              \E r \in {Dispatch(Storage, Exec(Storage, c))} :
                  /\ c.op \in {"burn", "self_burn"} /\ r.res = "Ok"
                  /\ balance(r.st, q[1], q[2]) = 0 /\ r.st.Account[q[1]][q[2]] # {}
        /\ \E r \in {Dispatch(Storage, refund(Storage, q[2], q[1], TRUE))} :
              r.res = "Ok" /\ r.st.Account[q[1]][q[2]] = {}


HoldsDeposit(s, id, who) ==
    s.Account[id][who] # {} /\ Get(s.Account[id][who]).reason = "DepositHeld"

\* refund(id, allow_burn) by `who` fails with error e and writes nothing.
RefundFails(s, id, who, allow_burn, e) ==
    \A r \in {refund(s, who, id, allow_burn)} : r.res = e /\ r.st = s

\* refund(id, TRUE) by `who`, whose account holds a deposit and a balance:
\* the account is removed, what is reserved of its deposit is released and
\* the supply goes down by the balance.
RefundBurns(s, id, who) ==
    \A r \in {refund(s, who, id, TRUE)}, a \in s.Account[id][who] :
        /\ r.res = "Ok"
        /\ r.st.Account[id][who] = {}
        /\ r.st.reserved[who] = s.reserved[who] - Min(s.reserved[who], a.deposit)
        /\ r.st.free[who] = s.free[who] + Min(s.reserved[who], a.deposit)
        /\ Get(r.st.Asset[id]).supply = Get(s.Asset[id]).supply - a.balance
        /\ Get(r.st.Asset[id]).accounts = Get(s.Asset[id]).accounts - 1

\* C36 as stated: refund without allow_burn by a caller whose account has a
\* balance fails with WouldBurn; refund by a caller whose account has not the
\* reason DepositHeld fails with NoDeposit; neither changes anything; refund
\* with allow_burn of a deposit-holding account with a balance removes it,
\* releases the deposit and lowers the supply by the balance.
C36_RefundErrors ==
    \A id \in Ids, who \in Accounts :
        /\ balance(Storage, id, who) > 0 => RefundFails(Storage, id, who, FALSE, "WouldBurn")
        /\ ~HoldsDeposit(Storage, id, who) =>
              \A b \in BOOLEAN : RefundFails(Storage, id, who, b, "NoDeposit")
        /\ (HoldsDeposit(Storage, id, who) /\ balance(Storage, id, who) > 0) =>
              RefundBurns(Storage, id, who)

\* C36, amended: refund by a caller that has no account or whose account has
\* not the reason DepositHeld fails with NoDeposit, whatever its balance and
\* allow_burn; refund without allow_burn by a caller whose account has the
\* reason DepositHeld and a balance fails with WouldBurn; neither changes
\* anything; refund with allow_burn of such an account removes it, releases
\* the deposit and lowers the supply by the balance.
C36_RefundErrorsByReason ==
    \A id \in Ids, who \in Accounts :
        /\ (HoldsDeposit(Storage, id, who) /\ balance(Storage, id, who) > 0) =>
              /\ RefundFails(Storage, id, who, FALSE, "WouldBurn")
              /\ RefundBurns(Storage, id, who)
        /\ ~HoldsDeposit(Storage, id, who) =>
              \A b \in BOOLEAN : RefundFails(Storage, id, who, b, "NoDeposit")
        /\ (HoldsDeposit(Storage, id, who) /\ balance(Storage, id, who) = 0) =>
              \A b \in BOOLEAN : refund(Storage, who, id, b).res = "Ok"

\* One class has an account with reason DepositHeld and a balance, whose
\* refund fails with WouldBurn and succeeds with allow_burn, and the state has
\* an account with another reason and a balance, whose refund fails with
\* NoDeposit.
C36_Witness ==
    /\ \E id \in Ids, who \in Accounts :
          /\ HoldsDeposit(Storage, id, who) /\ balance(Storage, id, who) > 0
          /\ reserved[who] >= Get(Account[id][who]).deposit
          /\ refund(Storage, who, id, FALSE).res = "WouldBurn"
          /\ refund(Storage, who, id, TRUE).res = "Ok"
    /\ \E id \in Ids, who \in Accounts :
          \/ /\ Account[id][who] # {} /\ ~HoldsDeposit(Storage, id, who)
             /\ refund(Storage, who, id, TRUE).res = "NoDeposit"
          \/ \E r \in {Dispatch(Storage, transfer(Storage, who, id, 1, 2))} :
                 /\ who # 1 /\ r.res = "Ok"
                 /\ ~HoldsDeposit(r.st, id, 1) /\ balance(r.st, id, 1) > 0
                 /\ refund(Settled(r.st), 1, id, FALSE).res = "NoDeposit"


\* Every stored approval of s holds a positive amount.
ApprovalsPositive(s) ==
    \A id \in Ids, owner \in Accounts, delegate \in Accounts :
        \A a \in s.Approvals[id][owner][delegate] : a.amount > 0

\* C37: every live approval holds a positive amount: in every reachable
\* state, after an approve_transfer of 0, which stores no approval and
\* reserves nothing, and after a transfer_approved, which removes the approval
\* it has used up.
C37_LiveApprovalsPositive ==
    /\ ApprovalsPositive(Storage)
    /\ \A id \in Ids, owner \in Accounts, delegate \in Accounts :
          \A r \in {Dispatch(Storage, approve_transfer(Storage, owner, id, delegate, 0))} :
              Approvals[id][owner][delegate] = {} =>
                  /\ r.st.Approvals[id][owner][delegate] = {}
                  /\ r.st.reserved[owner] = reserved[owner]
    /\ \A id \in Ids, owner \in Accounts, delegate \in Accounts, dest \in Accounts,
          n \in Amounts :
          \A r \in {Dispatch(Storage,
                             transfer_approved(Storage, delegate, id, owner, dest, n))} :
              r.res = "Ok" =>
                  \A a \in r.st.Approvals[id][owner][delegate] : a.amount > 0


\* What a successful transfer_approved of m by delegate takes off owner's
\* balance in storage s, for each destination; empty when none succeeds.
TakenByDelegate(s, id, owner, delegate, m) ==
    {balance(s, id, owner) - balance(t.st, id, owner) :
        t \in {q \in {Dispatch(s, transfer_approved(s, delegate, id, owner, dest, m)) :
                         dest \in Accounts} : q.res = "Ok"}}

\* C38: a delegate's transfer_approved never takes more off the owner's
\* balance than the owner has approved for it: when a pair without an approval
\* is approved for n, whatever one transfer_approved of the delegate removes
\* from the owner's balance, dust of a reaped account included, is at most n.
C38_DelegateTakesAtMostApproved ==
    \A id \in Ids, owner \in Accounts, delegate \in Accounts, n \in Amounts :
        \A a \in {Dispatch(Storage, approve_transfer(Storage, owner, id, delegate, n))} :
            (Approvals[id][owner][delegate] = {} /\ a.res = "Ok") =>
                \A m \in Amounts :
                    \A taken \in TakenByDelegate(Settled(a.st), id, owner, delegate, m) :
                        taken <= n



\* The role bits that account `who` holds in registry s.
RolesOf(s, who) == account_registry(s, who).roles

\* Some account of registry s holds the master role.
MasterExists(s) == \E who \in Accounts : account_is_master(s, who)

\* The calls of account_withdraw_role that succeed on the current registry.
SuccessfulWithdrawals ==
    {c \in RegistryCalls :
        /\ c.op = "account_withdraw_role"
        /\ RegistryExec(RegistryStorage, c).res = "Ok"}

\* C39: a successful account_withdraw_role(who, role), which only a master can
\* make, leaves `who` with none of the role bits in `role`, whether or not
\* `who` held them before the call, and changes no role bit outside `role`.
C39_WithdrawClearsRoles ==
    \A c \in SuccessfulWithdrawals :
        \A s \in {RegistryExec(RegistryStorage, c).st} :
            /\ account_is_master(RegistryStorage, c.origin)
            /\ BitAnd(RolesOf(s, c.who), c.role) = 0
            /\ BitAnd(BitXor(RolesOf(s, c.who), RolesOf(RegistryStorage, c.who)), c.role)
                   = BitXor(RolesOf(s, c.who), RolesOf(RegistryStorage, c.who))
            /\ \A other \in Accounts \ {c.who} :
                   RolesOf(s, other) = RolesOf(RegistryStorage, other)

\* Call c, returning r on the current registry, is one that may give account
\* `who` the master role: set_master by `who` while the fuse is intact, or
\* add_master_role(who) by an account that holds the master role.
GrantsMaster(c, who) ==
    \/ c.op = "set_master" /\ c.origin = who /\ ~Fuse
    \/ /\ c.op = "add_master_role"
       /\ c.who = who
       /\ account_is_master(RegistryStorage, c.origin)

\* set_master by a signed caller succeeds, and blows the fuse, exactly when the
\* fuse is intact; with the fuse blown it fails with InvalidAction.
SetMasterOnce(c, r) ==
    (c.op = "set_master" /\ c.origin # Root) =>
        IF Fuse THEN r.res = "InvalidAction"
        ELSE r.res = "Ok" /\ r.st.Fuse /\ account_is_master(r.st, c.origin)

\* A master that names itself in account_withdraw_role or account_disable gets
\* InvalidAction.
OwnRolesKept(c, r) ==
    (/\ c.op \in {"account_withdraw_role", "account_disable"}
     /\ c.origin # Root
     /\ c.who = c.origin
     /\ account_is_master(RegistryStorage, c.origin)) => r.res = "InvalidAction"

\* C40: the master role is given only by set_master, which succeeds only while
\* the fuse is intact and blows it for good, and by add_master_role called by
\* a master; a call made on a registry with a master leaves a registry with a
\* master; and no master can withdraw or disable its own roles.
C40_MasterGrantedAndKept ==
    \A c \in RegistryCalls :
        \A r \in {RegistryExec(RegistryStorage, c)} :
            /\ r.res # "Ok" => r.st = RegistryStorage
            /\ \A who \in Accounts :
                   (account_is_master(r.st, who) /\ ~account_is_master(RegistryStorage, who))
                       => GrantsMaster(c, who)
            /\ SetMasterOnce(c, r)
            /\ Fuse => r.st.Fuse
            /\ MasterExists(RegistryStorage) => MasterExists(r.st)
            /\ MasterExists(RegistryStorage) => Fuse
            /\ OwnRolesKept(c, r)

\* C40 witness: the fuse is blown and set_master fails with InvalidAction; two
\* accounts hold the master role, the second of them by add_master_role; one
\* disables the other and is still a master, and cannot disable itself.
C40_Witness ==
    /\ Fuse
    /\ \E m \in Accounts, w \in Accounts :
          /\ m # w
          /\ account_is_master(RegistryStorage, m)
          /\ account_is_master(RegistryStorage, w)
          /\ set_master(RegistryStorage, w).res = "InvalidAction"
          /\ account_disable(RegistryStorage, m, m).res = "InvalidAction"
          /\ \E r \in {account_disable(RegistryStorage, m, w)} :
                /\ r.res = "Ok"
                /\ account_is_master(r.st, m)
                /\ ~account_is_master(r.st, w)
                /\ MasterExists(r.st)

====
